---- MODULE Spec2Model ----
(***************************************************************************)
(* elmerfs: the driver that translates filesystem operations into backend *)
(* transactions (src/src/driver.rs), over a model of the CRDT key/value    *)
(* store it talks to.                                                      *)
(*                                                                         *)
(* Conventions.                                                            *)
(*  - u64 values are written as the residue nearest zero: a negative n     *)
(*    stands for 2^64 + n, so that -1 is u64::MAX.  U64Lt/U64Min compare   *)
(*    them as unsigned numbers.                                            *)
(*  - A transaction reads from the snapshot taken when it begins and its   *)
(*    update batch is applied atomically, in order, when it commits.       *)
(*  - Names delivered by the kernel are never "." (the VFS resolves it).   *)
(***************************************************************************)
EXTENDS Integers, Sequences, FiniteSets, TLC

(* ------------------------------ bounds --------------------------------- *)
\* Largest inode number the allocator hands out in a run.
MaxIno == 3
\* Task slots (kernel requests in flight in one driver process).
MaxTasks == 2
\* Longest byte string a write carries and largest write/read offset.
MaxLen == 2
MaxOff == 3
\* Spawned checkpoint tasks that have not run yet.
MaxCkpt == 2
\* Largest directory size and largest link count a run lets an inode reach.
MaxSize == 2
MaxNlink == 3

(* --------------------------- program constants ------------------------- *)
ROOT_INO == 1
\* PAGE_SIZE, scaled down from 4 KiB so that multi-page files are reachable.
PAGE_SIZE == 2

Inos == 1..MaxIno
Slots == 1..MaxTasks
NameStrs == {"a", "b"}
DOT == "."
VIEW == 7
LinkTargets == {"x", "yy"}
Bytes == {1, 2}
T0 == 1

(* ------------------------------ state ---------------------------------- *)
VARIABLES
  inodes,      \* backend: inode/<ino>       -> map of registers (+ nlink counter)
  dirs,        \* backend: dir/<ino>         -> add-wins map, as a set of entries
  symlinks,    \* backend: symlink/<ino>     -> register
  pages,       \* backend: page/<ino>/<idx>  -> register of bytes
  inos,        \* backend: inos/<view>       -> persisted inode high-water mark
  cfg,         \* Config.locks, the build profile, and the requests in flight at once
  driver,      \* the driver process: its phase and Driver.ino_counter (in memory)
  tx,          \* per task slot: the driver call it runs and its transaction
  deleters,    \* spawned delete_later tasks that have not run yet (their ino)
  ckpts,       \* spawned checkpoint tasks that have not run yet
  kernel,      \* the kernel interface: the request being served, the task
               \* spawned for it and the replies written to its reply object
  hist         \* history: the inode numbers next_ino returned before and since
               \* the last start, the checkpoint found at that start, and the
               \* bytes written to each file

vars == <<inodes, dirs, symlinks, pages, inos, cfg, driver, tx, deleters,
          ckpts, kernel, hist>>

backend == <<inodes, dirs, symlinks, pages, inos>>

(* --------------------------- u64 arithmetic ---------------------------- *)
U64Lt(a, b) ==
  IF a >= 0 /\ b >= 0 THEN a < b
  ELSE IF a < 0 /\ b < 0 THEN a < b
  ELSE b < 0

U64Min(a, b) == IF U64Lt(b, a) THEN b ELSE a

\* a - b with saturation at zero (u64::saturating_sub)
SaturatingSub(a, b) == IF U64Lt(a, b) THEN 0 ELSE a - b

(* ------------------------------ entities ------------------------------- *)
\* view::NameRef::canonicalize: the view-tagged name the backend stores.
Canonicalize(name, view) == [s |-> name, v |-> view]

\* model::inode: an inode key holds registers for the immutable fields
\* (meta), registers for the stats and the nlink counter.  A reset key has
\* none of them.
NoInode ==
  [meta |-> FALSE, stats |-> FALSE, kind |-> "None", parent |-> 0,
   mode |-> 0, uid |-> 0, gid |-> 0, size |-> 0,
   atime |-> 0, mtime |-> 0, ctime |-> 0, nlink |-> 0]

\* inode::decode: Some(inode) iff every required field is present.
InodeDecode(r) == r.meta /\ r.stats

\* Inode::attr: the FileAttr handed to the kernel.
Attr(ino, r) ==
  [ino |-> ino, kind |-> r.kind, size |-> r.size, nlink |-> r.nlink,
   mode |-> r.mode, uid |-> r.uid, gid |-> r.gid,
   atime |-> r.atime, mtime |-> r.mtime, ctime |-> r.ctime]

NewInode(kind, parent, t, uid, gid, mode, size, nlink) ==
  [meta |-> TRUE, stats |-> TRUE, kind |-> kind, parent |-> parent,
   mode |-> mode, uid |-> uid, gid |-> gid, size |-> size,
   atime |-> t, mtime |-> t, ctime |-> t, nlink |-> nlink]

\* dir::Entry::new
Entry(name, ino, kind) == [name |-> name, ino |-> ino, kind |-> kind]

\* dir::decode: Some(entries) iff the directory entity exists; an add-wins
\* map without entries is an absent one.
DirDecode(d) == d # {}

\* entries.get(&name) / entries.contains_key(&name)
HasEntry(d, name) == \E e \in d : e.name = Canonicalize(name, VIEW)
GetEntry(d, name) == CHOOSE e \in d : e.name = Canonicalize(name, VIEW)

NoLink == [set |-> FALSE, link |-> ""]

(* --------------------------- CRDT updates ------------------------------ *)
Store == [inodes |-> inodes, dirs |-> dirs, symlinks |-> symlinks,
          pages |-> pages, inos |-> inos]

\* inode::create: register writes for every field.
inode_create(ino, r) == [type |-> "inode_create", ino |-> ino, val |-> r]
\* inode::update_stats: writes for {mode, owner, size, atime, mtime, ctime, nlink}.
inode_update_stats(ino, r) == [type |-> "inode_update_stats", ino |-> ino, val |-> r]
inode_incr_link_count(ino, n) == [type |-> "inode_incr", ino |-> ino, val |-> n]
inode_decr_link_count(ino, n) == [type |-> "inode_incr", ino |-> ino, val |-> 0 - n]
inode_remove(ino) == [type |-> "inode_remove", ino |-> ino, val |-> 0]
dir_create(view, parent, ino) ==
  [type |-> "dir_add", ino |-> ino,
   val |-> Entry(Canonicalize(DOT, view), ino, "Directory")]
dir_add_entry(ino, e) == [type |-> "dir_add", ino |-> ino, val |-> e]
dir_remove_entry(ino, e) == [type |-> "dir_del", ino |-> ino, val |-> e]
dir_remove(ino) == [type |-> "dir_remove", ino |-> ino, val |-> 0]
symlink_create(ino, link) == [type |-> "symlink_create", ino |-> ino, val |-> link]
symlink_remove(ino) == [type |-> "symlink_remove", ino |-> ino, val |-> 0]
page_write(ino, idx, bytes) ==
  [type |-> "page_write", ino |-> ino, val |-> <<idx, bytes>>]
inos_set(v) == [type |-> "inos_set", ino |-> 0, val |-> v]

WriteStats(old, r) ==
  [old EXCEPT !.stats = TRUE, !.mode = r.mode, !.uid = r.uid, !.gid = r.gid,
              !.size = r.size, !.atime = r.atime, !.mtime = r.mtime,
              !.ctime = r.ctime, !.nlink = r.nlink]

ApplyUpdate(s, u) ==
  CASE u.type = "inode_create" ->
         [s EXCEPT !.inodes[u.ino] = u.val]
    [] u.type = "inode_update_stats" ->
         [s EXCEPT !.inodes[u.ino] = WriteStats(@, u.val)]
    [] u.type = "inode_incr" ->
         [s EXCEPT !.inodes[u.ino].nlink = @ + u.val]
    [] u.type = "inode_remove" ->
         [s EXCEPT !.inodes[u.ino] = NoInode]
    [] u.type = "dir_add" ->
         [s EXCEPT !.dirs[u.ino] =
            {e \in @ : e.name # u.val.name} \cup {u.val}]
    [] u.type = "dir_del" ->
         [s EXCEPT !.dirs[u.ino] = {e \in @ : e.name # u.val.name}]
    [] u.type = "dir_remove" ->
         [s EXCEPT !.dirs[u.ino] = {}]
    [] u.type = "symlink_create" ->
         [s EXCEPT !.symlinks[u.ino] = [set |-> TRUE, link |-> u.val]]
    [] u.type = "symlink_remove" ->
         [s EXCEPT !.symlinks[u.ino] = NoLink]
    [] u.type = "page_write" ->
         [s EXCEPT !.pages[u.ino][u.val[1]] = u.val[2]]
    [] u.type = "inos_set" ->
         [s EXCEPT !.inos = u.val]

RECURSIVE ApplyAll(_, _)
ApplyAll(s, us) ==
  IF us = <<>> THEN s ELSE ApplyAll(ApplyUpdate(s, Head(us)), Tail(us))

(* --------------------------- transactions ------------------------------ *)
InodeKey(ino) == [k |-> "inode", ino |-> ino]
DirKey(ino) == [k |-> "dir", ino |-> ino]
SymlinkKey(ino) == [k |-> "symlink", ino |-> ino]
InoKey(view) == [k |-> "inos", ino |-> view]

NoArgs == [x |-> 0]
NoRes == [ok |-> FALSE, errno |-> "NONE"]
Ok(v) == [ok |-> TRUE, errno |-> "OK", val |-> v]
Err(e) == [ok |-> FALSE, errno |-> e]
ENOENT == Err("ENOENT")
EEXIST == Err("EEXIST")

\* What a driver call does once its transaction has begun: the update batch
\* it issues, how it ends the transaction ("commit", "abort", "none" when it
\* returns with the transaction still open, "panic" when the task dies) and
\* what it returns.
Plan(updates, end, res) == [updates |-> updates, end |-> end, res |-> res]
Aborted(res) == Plan(<<>>, "abort", res)
Committed(updates, res) == Plan(updates, "commit", res)
Panicked == Plan(<<>>, "panic", Err("PANIC"))

Idle ==
  [pc |-> "idle", op |-> "none", args |-> NoArgs, ino |-> 0,
   shared |-> {}, excl |-> {}, plan |-> Aborted(NoRes)]

Running == {t \in Slots : tx[t].pc # "idle"}
Open == {t \in Slots : tx[t].pc = "open"}

\* A task takes the lowest free slot.
FreeSlot(t) ==
  /\ tx[t].pc = "idle"
  /\ \A u \in Slots : u < t => tx[u].pc # "idle"
  /\ Cardinality(Running) < cfg.tasks

\* The backend grants the lock set only when no open transaction holds a
\* conflicting lock.
LocksFree(t, shared, excl) ==
  \A u \in Open \ {t} :
    /\ excl \cap (tx[u].shared \cup tx[u].excl) = {}
    /\ shared \cap tx[u].excl = {}

\* transaction!: the declared lock set when cfg.locks, empty sets otherwise.
TxShared(shared) == IF cfg.locks THEN shared ELSE {}

\* A transaction! that never asks for an exclusive lock: C7 tells the two apart.
TxExcl_never(excl) == {}

TxExcl(excl) == IF cfg.locks THEN excl ELSE {}

\* pool.acquire() and transaction_with_locks(), then the body of the call up
\* to the point where it ends its transaction.
Begin(t, op, args, ino, shared, excl, plan) ==
  /\ LocksFree(t, TxShared(shared), TxExcl(excl))
  /\ tx' = [tx EXCEPT ![t] =
        [pc |-> "open", op |-> op, args |-> args, ino |-> ino,
         shared |-> TxShared(shared), excl |-> TxExcl(excl), plan |-> plan]]
  /\ UNCHANGED <<backend, cfg, driver, hist, kernel>>

(* --------------------------- overflow checks --------------------------- *)
\* `x += 1` / `x -= 1` on a u64: with overflow checks (a debug build) the
\* task panics, without them the value wraps.
Overflows(sub, a) == IF sub THEN a = 0 ELSE a = 0 - 1

(* ------------------------- read-only operations ------------------------ *)
\* Driver::attr_of
attr_of(s, ino) ==
  IF InodeDecode(s.inodes[ino]) THEN Ok(Attr(ino, s.inodes[ino])) ELSE ENOENT

\* Driver::getattr (also opendir, releasedir, open, release): `?` on attr_of
\* returns the error with the transaction still open.
getattr_plan(s, ino) ==
  LET attrs == attr_of(s, ino) IN
  IF attrs.ok THEN Committed(<<>>, attrs) ELSE Plan(<<>>, "none", attrs)

\* Driver::lookup
lookup_plan(s, parent_ino, name) ==
  IF ~DirDecode(s.dirs[parent_ino]) THEN Aborted(ENOENT)
  ELSE IF HasEntry(s.dirs[parent_ino], name)
       THEN Committed(<<>>, attr_of(s, GetEntry(s.dirs[parent_ino], name).ino))
       ELSE Committed(<<>>, ENOENT)

\* The iteration order of a directory map: by canonical name.
NameOrder == <<DOT, "a", "b">>
NameIndex(n) == CHOOSE i \in 1..Len(NameOrder) : NameOrder[i] = n.s

RECURSIVE SortedEntries(_)
SortedEntries(d) ==
  IF d = {} THEN <<>>
  ELSE LET e == CHOOSE x \in d : \A y \in d : NameIndex(x.name) <= NameIndex(y.name)
       IN <<e>> \o SortedEntries(d \ {e})

\* entries.iter_from(offset)
IterFrom(d, offset) ==
  LET all == SortedEntries(d) IN
  IF offset >= Len(all) THEN <<>> ELSE SubSeq(all, offset + 1, Len(all))

\* Driver::readdir: every ReadDirEntry carries `ino`, the directory's number.
readdir_plan(s, ino, offset) ==
  IF offset < 0 THEN Panicked
  ELSE IF ~DirDecode(s.dirs[ino]) THEN Aborted(ENOENT)
  ELSE LET es == IterFrom(s.dirs[ino], offset) IN
       Committed(<<>>,
         Ok([i \in 1..Len(es) |->
              [name |-> es[i].name.s, ino |-> ino, kind |-> es[i].kind]]))

\* Driver::read_link
read_link_plan(s, ino) ==
  IF ~s.symlinks[ino].set THEN Aborted(ENOENT)
  ELSE Committed(<<>>, Ok(s.symlinks[ino].link))

(* --------------------------- create operations ------------------------- *)
\* A mkdir that creates the inode with a single link: C1 tells the two apart.
mkdir_plan_one_link(s, ino, uid, gid, mode, parent_ino, name, debug) ==
  LET parent_inode == s.inodes[parent_ino]
      entries == s.dirs[parent_ino]
      inode == NewInode("Directory", parent_ino, T0, uid, gid, mode, 0, 1)
      parent2 == [parent_inode EXCEPT !.size = @ + 1, !.mtime = T0, !.atime = T0]
  IN
  IF ~InodeDecode(parent_inode) THEN Aborted(ENOENT)
  ELSE IF ~DirDecode(entries) THEN Aborted(ENOENT)
  ELSE IF HasEntry(entries, name) THEN Aborted(EEXIST)
  ELSE IF Overflows(FALSE, parent_inode.size) /\ debug THEN Panicked
  ELSE Committed(
         <<dir_add_entry(parent_ino, Entry(Canonicalize(name, VIEW), ino, "Directory")),
           dir_create(VIEW, parent_ino, ino),
           inode_create(ino, inode),
           inode_update_stats(parent_ino, parent2)>>,
         Ok(Attr(ino, inode)))

\* Driver::mkdir, after next_ino returned `ino`
mkdir_plan(s, ino, uid, gid, mode, parent_ino, name, debug) ==
  LET parent_inode == s.inodes[parent_ino]
      entries == s.dirs[parent_ino]
      inode == NewInode("Directory", parent_ino, T0, uid, gid, mode, 0, 2)
      parent2 == [parent_inode EXCEPT !.size = @ + 1, !.mtime = T0, !.atime = T0]
  IN
  IF ~InodeDecode(parent_inode) THEN Aborted(ENOENT)
  ELSE IF ~DirDecode(entries) THEN Aborted(ENOENT)
  ELSE IF HasEntry(entries, name) THEN Aborted(EEXIST)
  ELSE IF Overflows(FALSE, parent_inode.size) /\ debug THEN Panicked
  ELSE Committed(
         <<dir_add_entry(parent_ino, Entry(Canonicalize(name, VIEW), ino, "Directory")),
           dir_create(VIEW, parent_ino, ino),
           inode_create(ino, inode),
           inode_update_stats(parent_ino, parent2)>>,
         Ok(Attr(ino, inode)))

\* A mknod that does not look for the name first: C11 tells the two apart.
mknod_plan_overwrites(s, ino, uid, gid, mode, parent_ino, name, debug) ==
  LET parent == s.inodes[parent_ino]
      entries == s.dirs[parent_ino]
      inode == NewInode("Regular", parent_ino, T0, uid, gid, mode, 0, 1)
      parent2 == [parent EXCEPT !.mtime = T0, !.atime = T0, !.size = @ + 1]
  IN
  IF ~InodeDecode(parent) THEN Aborted(ENOENT)
  ELSE IF ~DirDecode(entries) THEN Aborted(ENOENT)
  ELSE IF Overflows(FALSE, parent.size) /\ debug THEN Panicked
  ELSE Committed(
         <<inode_update_stats(parent_ino, parent2),
           dir_add_entry(parent_ino, Entry(Canonicalize(name, VIEW), ino, "Regular")),
           inode_create(ino, inode)>>,
         Ok(Attr(ino, inode)))

\* Driver::mknod
mknod_plan(s, ino, uid, gid, mode, parent_ino, name, debug) ==
  LET parent == s.inodes[parent_ino]
      entries == s.dirs[parent_ino]
      inode == NewInode("Regular", parent_ino, T0, uid, gid, mode, 0, 1)
      parent2 == [parent EXCEPT !.mtime = T0, !.atime = T0, !.size = @ + 1]
  IN
  IF ~InodeDecode(parent) THEN Aborted(ENOENT)
  ELSE IF ~DirDecode(entries) THEN Aborted(ENOENT)
  ELSE IF HasEntry(entries, name) THEN Aborted(EEXIST)
  ELSE IF Overflows(FALSE, parent.size) /\ debug THEN Panicked
  ELSE Committed(
         <<inode_update_stats(parent_ino, parent2),
           dir_add_entry(parent_ino, Entry(Canonicalize(name, VIEW), ino, "Regular")),
           inode_create(ino, inode)>>,
         Ok(Attr(ino, inode)))

\* A symlink that stores the inode but not the target: C8 tells the two apart.
symlink_plan_without_target(s, ino, parent_ino, uid, gid, name, link, debug) ==
  LET parent == s.inodes[parent_ino]
      entries == s.dirs[parent_ino]
      inode == NewInode("Symlink", parent_ino, T0, uid, gid, 420, Len(link), 1)
      parent2 == [parent EXCEPT !.size = @ + 1, !.mtime = T0, !.atime = T0]
  IN
  IF ~InodeDecode(parent) THEN Aborted(ENOENT)
  ELSE IF ~DirDecode(entries) THEN Aborted(ENOENT)
  ELSE IF HasEntry(entries, name) THEN Aborted(EEXIST)
  ELSE IF Overflows(FALSE, parent.size) /\ debug THEN Panicked
  ELSE Committed(
         <<inode_create(ino, inode),
           inode_update_stats(parent_ino, parent2),
           dir_add_entry(parent_ino, Entry(Canonicalize(name, VIEW), ino, "Symlink"))>>,
         Ok(Attr(ino, inode)))

\* Driver::symlink
symlink_plan(s, ino, parent_ino, uid, gid, name, link, debug) ==
  LET parent == s.inodes[parent_ino]
      entries == s.dirs[parent_ino]
      inode == NewInode("Symlink", parent_ino, T0, uid, gid, 420, Len(link), 1)
      parent2 == [parent EXCEPT !.size = @ + 1, !.mtime = T0, !.atime = T0]
  IN
  IF ~InodeDecode(parent) THEN Aborted(ENOENT)
  ELSE IF ~DirDecode(entries) THEN Aborted(ENOENT)
  ELSE IF HasEntry(entries, name) THEN Aborted(EEXIST)
  ELSE IF Overflows(FALSE, parent.size) /\ debug THEN Panicked
  ELSE Committed(
         <<inode_create(ino, inode),
           inode_update_stats(parent_ino, parent2),
           dir_add_entry(parent_ino, Entry(Canonicalize(name, VIEW), ino, "Symlink")),
           symlink_create(ino, link)>>,
         Ok(Attr(ino, inode)))

(* --------------------------- remove operations ------------------------- *)
\* Driver::rmdir
rmdir_plan(s, parent_ino, name, debug) ==
  LET parent_inode == s.inodes[parent_ino]
      entries == s.dirs[parent_ino]
      entry == GetEntry(entries, name)
      parent2 == [parent_inode EXCEPT !.atime = T0, !.mtime = T0, !.size = @ - 1]
  IN
  IF ~InodeDecode(parent_inode) THEN Aborted(ENOENT)
  ELSE IF ~DirDecode(entries) THEN Aborted(ENOENT)
  ELSE IF ~HasEntry(entries, name) THEN Aborted(ENOENT)
  ELSE IF Overflows(TRUE, parent_inode.size) /\ debug THEN Panicked
  ELSE Committed(
         <<inode_decr_link_count(entry.ino, 1),
           dir_remove_entry(parent_ino, entry),
           inode_update_stats(parent_ino, parent2)>>,
         Ok(entry.ino))

\* Driver::unlink: the batch carries no update of the parent inode.
unlink_plan(s, parent_ino, name, debug) ==
  LET parent_inode == s.inodes[parent_ino]
      entries == s.dirs[parent_ino]
      entry == GetEntry(entries, name)
  IN
  IF ~InodeDecode(parent_inode) THEN Aborted(ENOENT)
  ELSE IF ~DirDecode(entries) THEN Aborted(ENOENT)
  ELSE IF ~HasEntry(entries, name) THEN Aborted(ENOENT)
  ELSE IF Overflows(TRUE, parent_inode.size) /\ debug THEN Panicked
  ELSE Committed(
         <<dir_remove_entry(parent_ino, entry),
           inode_decr_link_count(entry.ino, 1)>>,
         Ok(entry.ino))

\* A deleter that reclaims every inode with at most one link: C13 tells the
\* two apart.
delete_later_plan_eager(s, ino) ==
  LET inode == s.inodes[ino]
      must_be_removed == inode.nlink <= 1
  IN
  IF ~InodeDecode(inode) THEN Aborted(ENOENT)
  ELSE IF must_be_removed
       THEN Committed(<<inode_remove(ino), dir_remove(ino), symlink_remove(ino)>>,
                      Ok(TRUE))
       ELSE Committed(<<>>, Ok(FALSE))

\* A deleter that waits for a directory to lose its own link too: C23 tells
\* the two apart.
delete_later_plan_files_only(s, ino) ==
  LET inode == s.inodes[ino]
      must_be_removed == inode.nlink = 0
  IN
  IF ~InodeDecode(inode) THEN Aborted(ENOENT)
  ELSE IF must_be_removed
       THEN Committed(<<inode_remove(ino), dir_remove(ino), symlink_remove(ino)>>,
                      Ok(TRUE))
       ELSE Committed(<<>>, Ok(FALSE))

\* Driver::schedule_delete::delete_later
delete_later_plan(s, ino) ==
  LET inode == s.inodes[ino]
      must_be_removed ==
        (inode.kind = "Directory" /\ inode.nlink <= 1) \/ inode.nlink = 0
  IN
  IF ~InodeDecode(inode) THEN Aborted(ENOENT)
  ELSE IF must_be_removed
       THEN Committed(<<inode_remove(ino), dir_remove(ino), symlink_remove(ino)>>,
                      Ok(TRUE))
       ELSE Committed(<<>>, Ok(FALSE))

(* ------------------------------- rename -------------------------------- *)
\* A rename that replaces only empty directories: C27 tells the two apart.
rename_target_updates_dirs_only(s, new_parent_ino, has_target, target_entry) ==
  LET target == s.inodes[target_entry.ino] IN
  IF has_target /\ InodeDecode(target)
  THEN IF target.kind = "Directory" /\ target.size = 0
       THEN <<inode_remove(target_entry.ino),
              dir_remove(target_entry.ino),
              dir_remove_entry(new_parent_ino, target_entry)>>
       ELSE <<>>
  ELSE <<>>

\* Driver::rename, lines 654-686: what happens to an existing target.
rename_target_updates(s, new_parent_ino, has_target, target_entry) ==
  LET target == s.inodes[target_entry.ino] IN
  IF has_target /\ InodeDecode(target)
  THEN IF target.kind = "Directory" /\ target.size = 0
       THEN <<inode_remove(target_entry.ino),
              dir_remove(target_entry.ino),
              dir_remove_entry(new_parent_ino, target_entry)>>
       ELSE IF target.nlink = 1
       THEN <<inode_remove(target_entry.ino),
              dir_remove_entry(new_parent_ino, target_entry),
              symlink_remove(target_entry.ino)>>
       ELSE <<>>
  ELSE <<>>

\* Driver::rename
rename_plan(s, parent_ino, name, new_parent_ino, new_name, debug) ==
  LET parent == s.inodes[parent_ino]
      new_parent == s.inodes[new_parent_ino]
      parent_entries == s.dirs[parent_ino]
      new_parent_entries == s.dirs[new_parent_ino]
      entry == GetEntry(parent_entries, name)
      has_target == HasEntry(new_parent_entries, new_name)
      target_entry == IF has_target THEN GetEntry(new_parent_entries, new_name)
                      ELSE Entry(Canonicalize(new_name, VIEW), ROOT_INO, "None")
      inode == s.inodes[entry.ino]
      new_parent2 == [new_parent EXCEPT !.size = @ + 1, !.atime = T0, !.mtime = T0]
      parent2 == [parent EXCEPT !.size = @ - 1, !.atime = T0, !.mtime = T0]
      inode2 == [inode EXCEPT !.atime = T0]
  IN
  IF ~InodeDecode(parent) THEN Aborted(ENOENT)
  ELSE IF ~InodeDecode(new_parent) THEN Aborted(ENOENT)
  ELSE IF ~DirDecode(parent_entries) THEN Aborted(ENOENT)
  ELSE IF ~DirDecode(new_parent_entries) THEN Aborted(ENOENT)
  ELSE IF ~HasEntry(parent_entries, name) THEN Aborted(ENOENT)
  ELSE IF ~InodeDecode(inode) THEN Aborted(ENOENT)
  ELSE IF debug /\ (Overflows(FALSE, new_parent.size) \/ Overflows(TRUE, parent.size))
       THEN Panicked
  ELSE Committed(
         rename_target_updates(s, new_parent_ino, has_target, target_entry) \o
         <<inode_update_stats(parent_ino, parent2),
           inode_update_stats(new_parent_ino, new_parent2),
           inode_update_stats(entry.ino, inode2),
           dir_remove_entry(parent_ino, entry),
           dir_add_entry(new_parent_ino,
                         Entry(Canonicalize(new_name, VIEW), entry.ino, inode.kind))>>,
         Ok(0))

(* -------------------------------- link --------------------------------- *)
\* Driver::link: the EEXIST return leaves the transaction open; the entry is
\* always of kind Regular; the parent's size is not touched.
link_plan(s, ino, new_parent_ino, new_name) ==
  LET inode == s.inodes[ino]
      parent == s.inodes[new_parent_ino]
      entries == s.dirs[new_parent_ino]
      parent2 == [parent EXCEPT !.mtime = T0, !.atime = T0]
  IN
  IF ~InodeDecode(inode) THEN Aborted(ENOENT)
  ELSE IF ~InodeDecode(parent) THEN Aborted(ENOENT)
  ELSE IF ~DirDecode(entries) THEN Aborted(ENOENT)
  ELSE IF HasEntry(entries, new_name) THEN Plan(<<>>, "none", EEXIST)
  ELSE Committed(
         <<inode_update_stats(new_parent_ino, parent2),
           dir_add_entry(new_parent_ino,
                         Entry(Canonicalize(new_name, VIEW), ino, "Regular")),
           inode_incr_link_count(ino, 1)>>,
         Ok(Attr(ino, [inode EXCEPT !.nlink = @ + 1])))

(* ------------------------------ file data ------------------------------ *)
Min(a, b) == IF a < b THEN a ELSE b
Max(a, b) == IF a > b THEN a ELSE b

\* The bytes of `old` with `chunk` laid over them from position `at` (counted
\* from zero); positions neither holds are zero bytes.
Overlay(old, at, chunk) ==
  [i \in 1..Max(Len(old), at + Len(chunk)) |->
     IF at < i /\ i <= at + Len(chunk) THEN chunk[i - at]
     ELSE IF i <= Len(old) THEN old[i] ELSE 0]

\* PageWriter::write: one page register write per touched page; a page that
\* is only partly covered is read, modified and written back.
PageWriter_write(s, ino, offset, bytes) ==
  LET first == offset \div PAGE_SIZE
      last == (offset + Len(bytes) - 1) \div PAGE_SIZE
      upd(p) ==
        LET lo == Max(offset, p * PAGE_SIZE)
            hi == Min(offset + Len(bytes), (p + 1) * PAGE_SIZE)
            chunk == SubSeq(bytes, lo - offset + 1, hi - offset)
        IN page_write(ino, p,
             IF hi - lo = PAGE_SIZE THEN chunk
             ELSE Overlay(s.pages[ino][p], lo - p * PAGE_SIZE, chunk))
  IN [i \in 1..(last - first + 1) |-> upd(first + i - 1)]

\* The byte stored at position q of a file: zero where no page holds one.
ByteAt(s, ino, q) ==
  LET page == s.pages[ino][q \div PAGE_SIZE]
      i == (q % PAGE_SIZE) + 1
  IN IF i <= Len(page) THEN page[i] ELSE 0

\* PageWriter::read: the requested slice of the touched pages, absent bytes
\* padded with zeros up to the file size.
PageWriter_read(s, ino, offset, len) ==
  LET end == Min(offset + len, s.inodes[ino].size) IN
  IF end <= offset THEN <<>>
  ELSE [i \in 1..(end - offset) |-> ByteAt(s, ino, offset + i - 1)]

\* A write that takes the end of the written range for the new size: C3 tells
\* the two apart.
write_plan_size_is_end(s, ino, bytes, offset) ==
  LET inode == s.inodes[ino]
      inode2 == [inode EXCEPT !.atime = T0, !.mtime = T0,
                              !.size = offset + Len(bytes)]
  IN
  IF ~InodeDecode(inode) THEN Aborted(ENOENT)
  ELSE Committed(PageWriter_write(s, ino, offset, bytes) \o
                   <<inode_update_stats(ino, inode2)>>,
                 Ok(Len(bytes)))

\* A write that commits its pages when the inode is missing: C30 tells the two
\* apart.
write_plan_commits_pages(s, ino, bytes, offset) ==
  LET inode == s.inodes[ino]
      wrote_above_size == SaturatingSub(offset + Len(bytes), inode.size)
      inode2 == [inode EXCEPT !.atime = T0, !.mtime = T0,
                              !.size = @ + wrote_above_size]
  IN
  IF ~InodeDecode(inode)
  THEN Plan(PageWriter_write(s, ino, offset, bytes), "commit", ENOENT)
  ELSE Committed(PageWriter_write(s, ino, offset, bytes) \o
                   <<inode_update_stats(ino, inode2)>>,
                 Ok(Len(bytes)))

\* Driver::write: the pages are written before the inode is looked up; an
\* abort discards them.
write_plan(s, ino, bytes, offset) ==
  LET inode == s.inodes[ino]
      wrote_above_size == SaturatingSub(offset + Len(bytes), inode.size)
      inode2 == [inode EXCEPT !.atime = T0, !.mtime = T0,
                              !.size = @ + wrote_above_size]
  IN
  IF ~InodeDecode(inode) THEN Aborted(ENOENT)
  ELSE Committed(PageWriter_write(s, ino, offset, bytes) \o
                   <<inode_update_stats(ino, inode2)>>,
                 Ok(Len(bytes)))

\* Driver::read: `end - offset` is a u64 subtraction; when offset is beyond
\* the size it panics under overflow checks and otherwise wraps to a length
\* Vec::with_capacity refuses with a panic.
read_plan(s, ino, offset, len) ==
  LET inode == s.inodes[ino]
      end == U64Min(inode.size, offset + len)
  IN
  IF ~InodeDecode(inode) THEN Aborted(ENOENT)
  ELSE IF U64Lt(end, offset) THEN Panicked
  ELSE Committed(<<>>, Ok(PageWriter_read(s, ino, offset, len)))


(* ------------------------------ start-up ------------------------------- *)
\* InoGenerator::load: the generator starts at the persisted high-water
\* mark, and never below the first number after the root's.
InoGenerator_load(persisted) == Max(persisted, ROOT_INO + 1)

\* InoGenerator::checkpoint: writes the in-memory value to the counter key.
InoGenerator_checkpoint(counter) == inos_set(counter)

\* A load that ignores what is persisted: C5 tells the two apart.
load_ino_counter_afresh(s) == Committed(<<>>, Ok(ROOT_INO + 1))

\* A load that starts right above whatever is persisted: C32 tells the two
\* apart.
load_ino_counter_above_mark(s) == Committed(<<>>, Ok(s.inos + 1))

\* Driver::load_ino_counter
load_ino_counter(s) == Committed(<<>>, Ok(InoGenerator_load(s.inos)))

\* Driver::next_ino::checkpoint, once its transaction has begun.
checkpoint_plan(counter) ==
  Committed(<<InoGenerator_checkpoint(counter)>>, Ok(0))

\* A make_root that writes the root without looking: C9 tells the two apart.
make_root_plan_unconditional(s) ==
  LET root_inode == NewInode("Directory", 1, T0, 0, 0, 511, 0, 3) IN
  Committed(<<inode_create(ROOT_INO, root_inode),
              dir_create(VIEW, ROOT_INO, ROOT_INO)>>, Ok(0))

\* Driver::make_root
make_root_plan(s) ==
  LET root_inode == NewInode("Directory", 1, T0, 0, 0, 511, 0, 3) IN
  IF attr_of(s, ROOT_INO).ok THEN Committed(<<>>, Ok(0))
  ELSE Committed(<<inode_create(ROOT_INO, root_inode),
                   dir_create(VIEW, ROOT_INO, ROOT_INO)>>, Ok(0))

(* ------------------------------ actions -------------------------------- *)
OWNER_UID == 1000
OWNER_GID == 1000
MODE == 420

\* The build profile (overflow checks or none) matters only to a call that
\* reads a size at the edge of u64.
Builds(sizes) == IF sizes \cap {0, 0 - 1} # {} THEN BOOLEAN ELSE {FALSE}

\* The directories requests name as a parent.
Parents == {ROOT_INO, ROOT_INO + 1}

\* What the VFS lets through: link(2) never names a directory, rmdir(2) names
\* a directory and unlink(2) names anything else (or a missing entry);
\* rename(2) never moves a directory into itself, nor a directory onto a
\* non-directory or the reverse.
KindOfEntry(parent_ino, name) ==
  IF HasEntry(dirs[parent_ino], name)
  THEN inodes[GetEntry(dirs[parent_ino], name).ino].kind ELSE "Missing"

IsDir(kind) == kind = "Directory"

VfsRename(parent_ino, name, new_parent_ino, new_name) ==
  LET src == KindOfEntry(parent_ino, name)
      dst == KindOfEntry(new_parent_ino, new_name)
  IN /\ HasEntry(dirs[parent_ino], name) =>
          GetEntry(dirs[parent_ino], name).ino # new_parent_ino
     /\ (src # "Missing" /\ dst # "Missing") => (IsDir(src) <=> IsDir(dst))

\* Driver::next_ino: InoGenerator::next (an atomic fetch-and-increment) and a
\* spawned, unawaited checkpoint task.
next_ino(ino) ==
  /\ driver.phase = "up"
  /\ driver.ino_counter <= MaxIno
  /\ ino = driver.ino_counter
  /\ driver' = [driver EXCEPT !.ino_counter = @ + 1]
  /\ ckpts' = Min(ckpts + 1, MaxCkpt)
  /\ hist' = [hist EXCEPT !.now = Append(@, ino)]

\* The call ends its transaction and returns: a committed batch is applied in
\* order; rmdir and unlink then spawn the deferred deleter for the inode they
\* unlinked. 
Bounded(s) ==
  \A i \in Inos :
    /\ s.inodes[i].kind \in {"Directory", "None"} => s.inodes[i].size <= MaxSize
    /\ s.inodes[i].nlink <= MaxNlink

Complete(op, args, plan) ==
  LET s2 == IF plan.end = "commit" THEN ApplyAll(Store, plan.updates) ELSE Store
  IN /\ Bounded(s2)
     /\ inodes' = s2.inodes
     /\ dirs' = s2.dirs
     /\ symlinks' = s2.symlinks
     /\ pages' = s2.pages
     /\ inos' = s2.inos
     /\ deleters' = IF op \in {"rmdir", "unlink"} /\ plan.end = "commit"
                    THEN deleters \cup {plan.res.val} ELSE deleters

ParentLocks(parent_ino) == {InodeKey(parent_ino), DirKey(parent_ino)}

(* One request at a time: with a single request in flight nothing can run    *)
(* between the steps of a call, so a call is one step.                       *)
Exec(op, args, plan) ==
  /\ driver.phase = "up"
  /\ Running = {}
  /\ Complete(op, args, plan)
  /\ UNCHANGED <<cfg, driver, tx, ckpts, hist, kernel>>

ExecCreate(op, args, ino, plan) ==
  /\ Running = {}
  /\ next_ino(ino)
  /\ Complete(op, args, plan)
  /\ UNCHANGED <<cfg, tx, kernel>>

GetAttr ==
  \E ino \in Inos : Exec("getattr", [ino |-> ino], getattr_plan(Store, ino))

Lookup ==
  \E parent_ino \in Parents, name \in NameStrs :
    Exec("lookup", [parent_ino |-> parent_ino, name |-> name],
         lookup_plan(Store, parent_ino, name))

ReadDir ==
  \E ino \in Inos, offset \in 0..1 :
    Exec("readdir", [ino |-> ino, offset |-> offset], readdir_plan(Store, ino, offset))

ReadLink ==
  \E ino \in Inos : Exec("readlink", [ino |-> ino], read_link_plan(Store, ino))

MkDir ==
  \E parent_ino \in Parents, name \in NameStrs, ino \in Inos :
  \E debug \in Builds({inodes[parent_ino].size}) :
    ExecCreate("mkdir", [parent_ino |-> parent_ino, name |-> name], ino,
               mkdir_plan(Store, ino, OWNER_UID, OWNER_GID, MODE, parent_ino, name, debug))

MkNod ==
  \E parent_ino \in Parents, name \in NameStrs, ino \in Inos :
  \E debug \in Builds({inodes[parent_ino].size}) :
    ExecCreate("mknod", [parent_ino |-> parent_ino, name |-> name], ino,
               mknod_plan(Store, ino, OWNER_UID, OWNER_GID, MODE, parent_ino, name, debug))

Symlink ==
  \E parent_ino \in Parents, name \in NameStrs, link \in LinkTargets,
     ino \in Inos :
  \E debug \in Builds({inodes[parent_ino].size}) :
    ExecCreate("symlink", [parent_ino |-> parent_ino, name |-> name, link |-> link], ino,
               symlink_plan(Store, ino, parent_ino, OWNER_UID, OWNER_GID, name, link, debug))

RmDir ==
  \E parent_ino \in Parents, name \in NameStrs :
  \E debug \in Builds({inodes[parent_ino].size}) :
    /\ KindOfEntry(parent_ino, name) \in {"Directory", "Missing"}
    /\ Exec("rmdir", [parent_ino |-> parent_ino, name |-> name],
         rmdir_plan(Store, parent_ino, name, debug))

Unlink ==
  \E parent_ino \in Parents, name \in NameStrs :
  \E debug \in Builds({inodes[parent_ino].size}) :
    /\ KindOfEntry(parent_ino, name) \in {"Regular", "Symlink", "Missing"}
    /\ Exec("unlink", [parent_ino |-> parent_ino, name |-> name],
         unlink_plan(Store, parent_ino, name, debug))

Rename ==
  \E parent_ino \in Parents, name \in NameStrs,
     new_parent_ino \in Parents, new_name \in NameStrs :
  \E debug \in Builds({inodes[parent_ino].size, inodes[new_parent_ino].size}) :
    /\ VfsRename(parent_ino, name, new_parent_ino, new_name)
    /\ Exec("rename",
         [parent_ino |-> parent_ino, name |-> name,
          new_parent_ino |-> new_parent_ino, new_name |-> new_name],
         rename_plan(Store, parent_ino, name, new_parent_ino, new_name, debug))

Link ==
  \E ino \in Inos, new_parent_ino \in Parents, new_name \in NameStrs :
    /\ inodes[ino].kind # "Directory"
    /\ Exec("link",
         [ino |-> ino, new_parent_ino |-> new_parent_ino, new_name |-> new_name],
         link_plan(Store, ino, new_parent_ino, new_name))

\* Driver::schedule_delete: a spawned delete_later task runs.
DeleteLater ==
  \E ino \in deleters :
    /\ driver.phase = "up"
    /\ Running = {}
    /\ LET plan == delete_later_plan(Store, ino)
           s2 == ApplyAll(Store, plan.updates)
       IN /\ inodes' = s2.inodes
          /\ dirs' = s2.dirs
          /\ symlinks' = s2.symlinks
    /\ deleters' = deleters \ {ino}
    /\ UNCHANGED <<pages, inos, cfg, driver, tx, ckpts, hist, kernel>>

\* Driver::make_root, run by a driver that starts on the same backend.
MakeRoot == Exec("make_root", NoArgs, make_root_plan(Store))

(* --------------------------- kernel interface -------------------------- *)
\* A request of the kernel: the operation and the arguments its handler is
\* called with (the fields an operation does not take are left at zero).
Request(op, ino, name, newparent, newname, offset, size, data, link) ==
  [op |-> op, ino |-> ino, name |-> name, newparent |-> newparent,
   newname |-> newname, offset |-> offset, size |-> size, data |-> data,
   link |-> link]

\* A name or link target as the kernel hands it over (an OsStr): its text,
\* whether its bytes are UTF-8 and whether the text parses as a name.
Raw(s, utf8, parses) == [s |-> s, utf8 |-> utf8, parses |-> parses]
NoName == Raw("", TRUE, TRUE)

NoRequest == Request("none", 0, NoName, 0, NoName, 0, 0, <<>>, NoName)

\* The Result a call of the driver returned: Ok, or an Error (driver::Error).
NoResult == [kind |-> "none", errno |-> "-"]
OkResult == [kind |-> "Ok", errno |-> "-"]
Sys(errno) == [kind |-> "Sys", errno |-> errno]
Antidote == [kind |-> "Antidote", errno |-> "-"]
driver_Error == {Sys(e) : e \in {"ENOENT", "EEXIST"}} \cup {Antidote}

\* What a handler writes to the reply object: the success reply of the
\* operation (attr, entry, opened, ok, data, written) or error(errno).
Reply(kind) == [kind |-> kind, errno |-> "OK"]
ReplyError(errno) == [kind |-> "error", errno |-> errno]

\* No request has been received yet.
Quiet == [req |-> NoRequest, task |-> "none", result |-> NoResult,
          replies |-> <<>>]

(* ------------------------------ initial state -------------------------- *)
\* The backend once Driver::new has returned on an empty bucket: make_root
\* created the root, load_ino_counter found no checkpoint.
RootInode == NewInode("Directory", 1, T0, 0, 0, 511, 0, 3)

InitBackend ==
  /\ inodes = [i \in Inos |-> IF i = ROOT_INO THEN RootInode ELSE NoInode]
  /\ dirs = [i \in Inos |->
              IF i = ROOT_INO
              THEN {Entry(Canonicalize(DOT, VIEW), ROOT_INO, "Directory")} ELSE {}]
  /\ symlinks = [i \in Inos |-> NoLink]
  /\ pages = [i \in Inos |-> [p \in 0..((MaxOff + MaxLen) \div PAGE_SIZE) |-> <<>>]]
  /\ inos = 0

InitDriver ==
  /\ driver = [phase |-> "up", ino_counter |-> ROOT_INO + 1]
  /\ tx = [t \in Slots |-> Idle]
  /\ deleters = {}
  /\ ckpts = 0
  /\ kernel = Quiet
  /\ hist = [before |-> {}, now |-> <<>>, floor |-> 0,
             written |-> [i \in Inos |-> <<>>], listed |-> <<>>]

(* ---------------- the namespace operations, one at a time -------------- *)
Init ==
  /\ InitBackend
  /\ InitDriver
  /\ cfg = [locks |-> TRUE, tasks |-> 1]

Next ==
  \/ GetAttr \/ Lookup \/ ReadDir \/ ReadLink
  \/ MkDir \/ MkNod \/ Symlink
  \/ RmDir \/ Unlink \/ Rename \/ Link
  \/ DeleteLater \/ MakeRoot

Spec == Init /\ [][Next]_vars

(* ------------------ properties of the namespace operations ------------- *)
\* The backend once the batch of a committed call has been applied.
After(plan) == ApplyAll(Store, plan.updates)

\* The inode number the next create call is given by next_ino.
FreshIno == driver.ino_counter

CanCreate == driver.phase = "up" /\ FreshIno <= MaxIno

\* C1: a mkdir that commits is followed by a lookup of the same parent and
\* name that returns the attributes mkdir returned: the new inode number,
\* kind Directory, size 0 and nlink 2; after a committed rmdir or unlink of a
\* name, a lookup of that name answers ENOENT.
C1_LookupAfterMkdirRmdirUnlink ==
  \A parent_ino \in Parents, name \in NameStrs, debug \in BOOLEAN :
    /\ LET plan == mkdir_plan(Store, FreshIno, OWNER_UID, OWNER_GID, MODE,
                              parent_ino, name, debug)
           found == lookup_plan(After(plan), parent_ino, name)
       IN (CanCreate /\ plan.end = "commit") =>
            /\ found.end = "commit"
            /\ found.res = plan.res
            /\ found.res.ok
            /\ found.res.val.ino = FreshIno
            /\ found.res.val.kind = "Directory"
            /\ found.res.val.size = 0
            /\ found.res.val.nlink = 2
    /\ LET plan == rmdir_plan(Store, parent_ino, name, debug) IN
       (KindOfEntry(parent_ino, name) = "Directory" /\ plan.end = "commit") =>
          lookup_plan(After(plan), parent_ino, name).res = ENOENT
    /\ LET plan == unlink_plan(Store, parent_ino, name, debug) IN
       (KindOfEntry(parent_ino, name) \in {"Regular", "Symlink"}
          /\ plan.end = "commit") =>
          lookup_plan(After(plan), parent_ino, name).res = ENOENT

\* A directory made by mkdir is found by lookup with the attributes mkdir gave
\* it, next to a name that rmdir or unlink removed.
C1_Witness ==
  \E parent_ino \in Parents, name \in NameStrs, gone \in NameStrs :
    LET found == lookup_plan(Store, parent_ino, name).res IN
    /\ found.ok
    /\ found.val.ino # ROOT_INO
    /\ found.val.kind = "Directory"
    /\ found.val.size = 0
    /\ found.val.nlink = 2
    /\ deleters # {}
    /\ lookup_plan(Store, parent_ino, gone) = Committed(<<>>, ENOENT)

\* The number of entries other than "." in the directory map of ino.
EntryCount(ino) == Cardinality({e \in dirs[ino] : e.name.s # DOT})

\* C2: with locks enabled, after any sequence of committed mkdir, mknod,
\* symlink, link, unlink, rmdir and rename calls, the persisted size of every
\* existing directory inode equals the number of entries other than "." in
\* that directory's entry map.
C2_DirSizeIsEntryCount ==
  cfg.locks =>
    \A ino \in Inos :
      (InodeDecode(inodes[ino]) /\ inodes[ino].kind = "Directory"
         /\ DirDecode(dirs[ino]))
        => inodes[ino].size = EntryCount(ino)

\* C8: after a committed symlink(parent, name, L), lookup finds the name,
\* read_link on the inode found returns L byte for byte, and getattr on it
\* reports kind Symlink, nlink 1 and size equal to the length of L.
C8_SymlinkRoundTrip ==
  \A parent_ino \in Parents, name \in NameStrs, link \in LinkTargets,
     debug \in BOOLEAN :
    LET plan == symlink_plan(Store, FreshIno, parent_ino, OWNER_UID, OWNER_GID,
                             name, link, debug)
        found == lookup_plan(After(plan), parent_ino, name).res
    IN (CanCreate /\ plan.end = "commit") =>
         /\ found.ok
         /\ read_link_plan(After(plan), found.val.ino) = Committed(<<>>, Ok(link))
         /\ LET attrs == getattr_plan(After(plan), found.val.ino).res IN
            /\ attrs.ok
            /\ attrs.val.kind = "Symlink"
            /\ attrs.val.nlink = 1
            /\ attrs.val.size = Len(link)

\* A symlink made by symlink is found by lookup, and read_link gives back a
\* target of two bytes, which is the size getattr reports.
C8_Witness ==
  \E parent_ino \in Parents, name \in NameStrs :
    LET found == lookup_plan(Store, parent_ino, name).res IN
    /\ found.ok
    /\ found.val.kind = "Symlink"
    /\ found.val.nlink = 1
    /\ read_link_plan(Store, found.val.ino).res = Ok("yy")
    /\ getattr_plan(Store, found.val.ino).res.val.size = 2

\* C9: whatever operations ran since the first make_root, the root inode
\* exists, and a further make_root issues no update: the root inode and the
\* root directory stay exactly as they were.
C9_MakeRootIdempotent ==
  LET plan == make_root_plan(Store) IN
  /\ attr_of(Store, ROOT_INO).ok
  /\ plan.end = "commit"
  /\ plan.updates = <<>>
  /\ After(plan).inodes[ROOT_INO] = inodes[ROOT_INO]
  /\ After(plan).dirs[ROOT_INO] = dirs[ROOT_INO]

\* The root has been changed by the calls that ran since it was made (it has
\* two entries besides "."), and make_root leaves it alone.
C9_Witness ==
  /\ inodes[ROOT_INO] # RootInode
  /\ EntryCount(ROOT_INO) = 2
  /\ make_root_plan(Store).updates = <<>>

\* What readdir lists for a directory, from the first entry on.
Listing(s, ino) == readdir_plan(s, ino, 0).res

\* C10: a rename whose source and target are the same parent and the same
\* name leaves the listing readdir gives for that directory unchanged: the
\* entry is there before and after, with the same name and kind.
C10_RenameOntoItself ==
  \A parent_ino \in Parents, name \in NameStrs, debug \in BOOLEAN :
    LET plan == rename_plan(Store, parent_ino, name, parent_ino, name, debug) IN
    plan.end = "commit" => Listing(After(plan), parent_ino) = Listing(Store, parent_ino)

(* ------------------- file data, one request at a time ------------------ *)
\* The byte strings a write carries.
Datas == UNION {[1..n -> Bytes] : n \in 1..MaxLen}

\* The inode number the requests for file data name: the first one a create
\* call is given.
Opened == {ROOT_INO + 1}

\* Driver::write, for the offsets fs.rs lets through (never negative), on an
\* inode number the kernel holds as a file.
Write ==
  \E ino \in Opened, bytes \in Datas, offset \in 0..MaxOff :
    LET plan == write_plan(Store, ino, bytes, offset) IN
    /\ inodes[ino].kind \in {"Regular", "None"}
    /\ driver.phase = "up"
    /\ Running = {}
    /\ Complete("write", [ino |-> ino, offset |-> offset], plan)
    /\ hist' = IF plan.end = "commit"
               THEN [hist EXCEPT !.written[ino] = Overlay(@, offset, bytes)]
               ELSE hist
    /\ UNCHANGED <<cfg, driver, tx, ckpts, kernel>>

\* Driver::read
Read ==
  \E ino \in Opened, offset \in 0..MaxOff, len \in 1..MaxLen :
    /\ inodes[ino].kind \in {"Regular", "None"}
    /\ Exec("read", [ino |-> ino, offset |-> offset, len |-> len],
            read_plan(Store, ino, offset, len))

NextIO == MkNod \/ Write \/ Read \/ GetAttr

SpecIO == Init /\ [][NextIO]_vars

\* The regular files that exist.
Files == {ino \in Inos : InodeDecode(inodes[ino]) /\ inodes[ino].kind = "Regular"}

\* The bytes of `content` in the range [offset, end).
Slice(content, offset, end) ==
  IF end <= offset THEN <<>> ELSE SubSeq(content, offset + 1, end)

C4_ReadIsTruncatedToSize ==
  \A ino \in Files, offset \in 0..MaxOff, len \in 1..MaxLen :
    LET plan == read_plan(Store, ino, offset, len)
        end == Min(inodes[ino].size, offset + len)
    IN /\ plan.end = "commit"
       /\ plan.res = Ok(Slice(hist.written[ino], offset, end))

(* --------------- create calls, checkpoints, crash and restart ---------- *)
\* A create call starts in a free task: next_ino hands it a number and spawns
\* a checkpoint; the call has no transaction yet.
Alloc(t, op, name, link) ==
  /\ FreeSlot(t)
  /\ \E ino \in Inos :
       /\ next_ino(ino)
       /\ tx' = [tx EXCEPT ![t] =
             [Idle EXCEPT !.pc = "alloc", !.op = op, !.ino = ino,
                          !.args = [parent_ino |-> ROOT_INO, name |-> name,
                                    link |-> link]]]
  /\ UNCHANGED <<backend, cfg, deleters, kernel>>

MkDirAlloc(t) == \E name \in NameStrs : Alloc(t, "mkdir", name, "")
MkNodAlloc(t) == \E name \in NameStrs : Alloc(t, "mknod", name, "")
SymlinkAlloc(t) == \E name \in NameStrs : Alloc(t, "symlink", name, "x")

\* What the create call in task t does with the snapshot s.
create_plan(t, s, debug) ==
  LET a == tx[t].args IN
  CASE tx[t].op = "mkdir" ->
         mkdir_plan(s, tx[t].ino, OWNER_UID, OWNER_GID, MODE, a.parent_ino, a.name, debug)
    [] tx[t].op = "mknod" ->
         mknod_plan(s, tx[t].ino, OWNER_UID, OWNER_GID, MODE, a.parent_ino, a.name, debug)
    [] tx[t].op = "symlink" ->
         symlink_plan(s, tx[t].ino, a.parent_ino, OWNER_UID, OWNER_GID, a.name, a.link, debug)

\* The create call begins its transaction under the parent's locks and runs
\* up to its commit or abort.
CreateBegin(t) ==
  /\ driver.phase = "up"
  /\ tx[t].pc = "alloc"
  /\ \E debug \in Builds({inodes[tx[t].args.parent_ino].size}) :
       Begin(t, tx[t].op, tx[t].args, tx[t].ino, {},
             ParentLocks(tx[t].args.parent_ino), create_plan(t, Store, debug))
  /\ UNCHANGED <<deleters, ckpts, kernel>>

\* A spawned checkpoint task runs: it begins its transaction under the
\* exclusive lock of the counter key and reads the in-memory counter.
CheckpointBegin(t) ==
  /\ driver.phase = "up"
  /\ ckpts > 0
  /\ FreeSlot(t)
  /\ Begin(t, "checkpoint", [parent_ino |-> 0, name |-> "", link |-> ""], 0, {},
           {InoKey(VIEW)}, checkpoint_plan(driver.ino_counter))
  /\ ckpts' = ckpts - 1
  /\ UNCHANGED <<deleters, kernel>>

\* The open transaction of task t ends and the task is over.
Finish(t) ==
  /\ driver.phase = "up"
  /\ tx[t].pc = "open"
  /\ Complete(tx[t].op, tx[t].args, tx[t].plan)
  /\ tx' = [tx EXCEPT ![t] = Idle]
  /\ UNCHANGED <<cfg, driver, ckpts, hist, kernel>>

Range(f) == {f[i] : i \in DOMAIN f}

\* The driver process dies: its tasks, their open transactions and the
\* in-memory counter are gone; the backend keeps what was committed.
Crash ==
  /\ driver.phase = "up"
  /\ driver' = [phase |-> "down", ino_counter |-> 0]
  /\ tx' = [t \in Slots |-> Idle]
  /\ ckpts' = 0
  /\ deleters' = {}
  /\ hist' = [hist EXCEPT !.before = @ \cup Range(hist.now), !.now = <<>>,
                          !.floor = inos]
  /\ UNCHANGED <<backend, cfg, kernel>>

\* Driver::new: make_root, then load_ino_counter.
Restart ==
  /\ driver.phase = "down"
  /\ LET s1 == ApplyAll(Store, make_root_plan(Store).updates) IN
     /\ inodes' = s1.inodes
     /\ dirs' = s1.dirs
     /\ driver' = [phase |-> "up", ino_counter |-> load_ino_counter(s1).res.val]
  /\ UNCHANGED <<symlinks, pages, inos, cfg, tx, deleters, ckpts, hist, kernel>>

InitAlloc ==
  /\ InitBackend
  /\ InitDriver
  /\ cfg \in {[locks |-> l, tasks |-> MaxTasks] : l \in BOOLEAN}

NextAlloc ==
  \/ \E t \in Slots : MkDirAlloc(t)
  \/ \E t \in Slots : MkNodAlloc(t)
  \/ \E t \in Slots : SymlinkAlloc(t)
  \/ \E t \in Slots : CreateBegin(t)
  \/ \E t \in Slots : CheckpointBegin(t)
  \/ \E t \in Slots : Finish(t)
  \/ Crash
  \/ Restart

SpecAlloc == InitAlloc /\ [][NextAlloc]_vars

\* C5: the numbers next_ino returned since the driver started are strictly
\* increasing in the order it returned them, whichever create calls asked
\* and however they interleave, and the first one returned after a crash and
\* a restart is at least the value last checkpointed before the crash.
C5_NextInoIncreases ==
  /\ \A i, j \in 1..Len(hist.now) : i < j => hist.now[i] < hist.now[j]
  /\ hist.now # <<>> => hist.now[1] >= hist.floor

\* A driver that restarted on a checkpoint, and a create call of the new
\* process that got its number while another task holds a transaction.
C5_Witness ==
  /\ hist.before # {}
  /\ hist.floor > ROOT_INO + 1
  /\ hist.now # <<>>
  /\ hist.now[1] = hist.floor
  /\ \E t \in Slots : tx[t].pc = "alloc"

\* C6: no number next_ino returned before a crash is returned again by
\* next_ino after the driver restarted and reloaded the counter.
C6_NoReuseAcrossRestart ==
  \A i \in 1..Len(hist.now) : hist.now[i] \notin hist.before

\* C7: with locks enabled, no step lowers the persisted counter, however the
\* spawned checkpoint tasks interleave with each other and with the calls.
C7_CheckpointNeverRegresses ==
  [][cfg.locks => inos' >= inos]_vars

\* With locks, a checkpoint holds the counter key with a value the counter
\* has since left behind, while a later spawned checkpoint waits for the key.
C7_Witness ==
  /\ cfg.locks
  /\ driver.phase = "up"
  /\ ckpts > 0
  /\ \E t \in Slots :
       /\ tx[t].op = "checkpoint"
       /\ tx[t].pc = "open"
       /\ tx[t].plan.updates[1].val < driver.ino_counter

(* ------------------------- errors and ownership ------------------------ *)
\* What a call leaves in the backend: its batch when it commits, nothing
\* otherwise.
Outcome(plan) == IF plan.end = "commit" THEN After(plan) ELSE Store

\* The create calls and link, asked to put `name` into parent_ino.
AddNamePlans(parent_ino, name, debug) ==
  {mkdir_plan(Store, FreshIno, OWNER_UID, OWNER_GID, MODE, parent_ino, name, debug),
   mknod_plan(Store, FreshIno, OWNER_UID, OWNER_GID, MODE, parent_ino, name, debug)}
  \cup {symlink_plan(Store, FreshIno, parent_ino, OWNER_UID, OWNER_GID, name, link, debug)
          : link \in LinkTargets}
  \cup {link_plan(Store, ino, parent_ino, name)
          : ino \in {i \in Inos : InodeDecode(inodes[i]) /\ inodes[i].kind # "Directory"}}

\* C11: mkdir, mknod, symlink or link onto a name already present in an
\* existing parent directory returns EEXIST, issues no update and does not
\* commit: entries, inode stats and link counts are as before and the
\* directory still holds one entry of that name.
C11_DuplicateNameIsRefused ==
  \A parent_ino \in Parents, name \in NameStrs, debug \in BOOLEAN :
    (CanCreate /\ InodeDecode(inodes[parent_ino]) /\ HasEntry(dirs[parent_ino], name)) =>
      \A plan \in AddNamePlans(parent_ino, name, debug) :
        /\ plan.res = EEXIST
        /\ plan.updates = <<>>
        /\ plan.end # "commit"
        /\ Outcome(plan).inodes = inodes
        /\ Outcome(plan).dirs = dirs
        /\ Cardinality({e \in Outcome(plan).dirs[parent_ino] :
                          e.name = Canonicalize(name, VIEW)}) = 1

\* A directory that holds a name, a file that could be linked under it, and a
\* number ready for a create call: all four calls are refused there.
C11_Witness ==
  \E parent_ino \in Parents, name \in NameStrs :
    /\ CanCreate
    /\ InodeDecode(inodes[parent_ino])
    /\ HasEntry(dirs[parent_ino], name)
    /\ Cardinality(AddNamePlans(parent_ino, name, FALSE)) >= 2
    /\ \E ino \in Inos :
         link_plan(Store, ino, parent_ino, name).res = EEXIST

\* A call that returns ENOENT or EEXIST has ended its transaction.
ClosedOnError(plan) ==
  (~plan.res.ok /\ plan.res.errno \in {"ENOENT", "EEXIST"})
    => plan.end \in {"abort", "commit"}

\* C12: on every return path that reports a validation failure (ENOENT for a
\* missing inode, directory, entry or symlink, EEXIST for a duplicate name)
\* the call has ended its transaction before it returns: none returns the
\* error with the transaction still open.
C12_ErrorsCloseTheTransaction ==
  /\ \A ino \in Inos :
       /\ ClosedOnError(getattr_plan(Store, ino))
       /\ ClosedOnError(read_link_plan(Store, ino))
       /\ ClosedOnError(readdir_plan(Store, ino, 0))
       /\ ClosedOnError(delete_later_plan(Store, ino))
       /\ \A offset \in 0..MaxOff, bytes \in Datas :
            /\ ClosedOnError(write_plan(Store, ino, bytes, offset))
            /\ ClosedOnError(read_plan(Store, ino, offset, Len(bytes)))
       /\ \A parent_ino \in Parents, name \in NameStrs :
            ClosedOnError(link_plan(Store, ino, parent_ino, name))
  /\ \A parent_ino \in Parents, name \in NameStrs, debug \in BOOLEAN :
       /\ ClosedOnError(lookup_plan(Store, parent_ino, name))
       /\ ClosedOnError(mkdir_plan(Store, FreshIno, OWNER_UID, OWNER_GID, MODE,
                                   parent_ino, name, debug))
       /\ ClosedOnError(mknod_plan(Store, FreshIno, OWNER_UID, OWNER_GID, MODE,
                                   parent_ino, name, debug))
       /\ ClosedOnError(symlink_plan(Store, FreshIno, parent_ino, OWNER_UID,
                                     OWNER_GID, name, "x", debug))
       /\ ClosedOnError(rmdir_plan(Store, parent_ino, name, debug))
       /\ ClosedOnError(unlink_plan(Store, parent_ino, name, debug))
       /\ \A new_parent_ino \in Parents, new_name \in NameStrs :
            ClosedOnError(rename_plan(Store, parent_ino, name,
                                      new_parent_ino, new_name, debug))

\* The inode a lookup resolves the name to (0 when it resolves to none).
Resolve(s, parent_ino, name) ==
  LET found == lookup_plan(s, parent_ino, name).res IN
  IF found.ok THEN found.val.ino ELSE 0

\* C13: when mknod(parent, a) creates inode I and link(I, parent2, b)
\* commits, both names resolve to I and the persisted nlink of I is 2; when
\* unlink(parent, a) then commits, b still resolves to I, getattr(I) reports
\* nlink 1, and the deferred deleter leaves I in place.
C13_HardLinkSurvivesUnlink ==
  \A parent_ino \in Parents, a \in NameStrs, parent2 \in Parents, b \in NameStrs,
     debug \in BOOLEAN :
    LET I == FreshIno
        mk == mknod_plan(Store, I, OWNER_UID, OWNER_GID, MODE, parent_ino, a, debug)
        s1 == After(mk)
        ln == link_plan(s1, I, parent2, b)
        s2 == ApplyAll(s1, ln.updates)
        un == unlink_plan(s2, parent_ino, a, debug)
        s3 == ApplyAll(s2, un.updates)
        dl == delete_later_plan(s3, I)
    IN (CanCreate /\ mk.end = "commit" /\ ln.end = "commit") =>
         /\ Resolve(s2, parent_ino, a) = I
         /\ Resolve(s2, parent2, b) = I
         /\ s2.inodes[I].nlink = 2
         /\ ln.res.val.nlink = 2
         /\ un.end = "commit" =>
              /\ un.res = Ok(I)
              /\ Resolve(s3, parent_ino, a) = 0
              /\ Resolve(s3, parent2, b) = I
              /\ getattr_plan(s3, I).res.ok
              /\ getattr_plan(s3, I).res.val.nlink = 1
              /\ dl = Committed(<<>>, Ok(FALSE))

\* A file that had two names and lost one: one entry still resolves to it,
\* its link count is 1, and the deleter unlink spawned for it has yet to run.
C13_Witness ==
  \E ino \in deleters, parent_ino \in Parents, b \in NameStrs :
    /\ inodes[ino].kind = "Regular"
    /\ Resolve(Store, parent_ino, b) = ino
    /\ getattr_plan(Store, ino).res.val.nlink = 1
    /\ delete_later_plan(Store, ino) = Committed(<<>>, Ok(FALSE))

\* The exclusive lock sets the calls declare to transaction!.
rename_locks(parent_ino, new_parent_ino) ==
  {InodeKey(parent_ino), InodeKey(new_parent_ino)}
\* A link that leaves the directory of the new parent unlocked: C22 tells the
\* two apart.
link_locks_without_dir(ino, new_parent_ino) ==
  {InodeKey(ino), InodeKey(new_parent_ino)}
link_locks(ino, new_parent_ino) ==
  {InodeKey(ino), InodeKey(new_parent_ino), DirKey(new_parent_ino)}
delete_later_locks(ino) == {InodeKey(ino)}
write_locks(ino) == {InodeKey(ino)}

\* The key of the entity an update writes to.
UpdateKey(u) ==
  CASE u.type \in {"inode_create", "inode_update_stats", "inode_incr", "inode_remove"}
         -> InodeKey(u.ino)
    [] u.type \in {"dir_add", "dir_del", "dir_remove"} -> DirKey(u.ino)
    [] u.type \in {"symlink_create", "symlink_remove"} -> SymlinkKey(u.ino)
    [] u.type = "page_write" -> [k |-> "page", ino |-> u.ino]
    [] u.type = "inos_set" -> InoKey(VIEW)

\* The inode, directory and symlink entities the backend holds.
Existing ==
  {InodeKey(i) : i \in {j \in Inos : InodeDecode(inodes[j])}}
  \cup {DirKey(i) : i \in {j \in Inos : DirDecode(dirs[j])}}
  \cup {SymlinkKey(i) : i \in {j \in Inos : symlinks[j].set}}

\* Every existing entity the batch writes to is under an exclusive lock the
\* transaction declared.
Owned(plan, excl) ==
  \A i \in 1..Len(plan.updates) :
    UpdateKey(plan.updates[i]) \in Existing => UpdateKey(plan.updates[i]) \in TxExcl(excl)

\* C14: with locks enabled, every update of an existing inode, directory or
\* symlink entity is issued by a transaction whose declared exclusive lock
\* set holds that entity's key, for every call: the create calls, link,
\* rename, unlink, rmdir, write and the deferred deleter.
C14_MutationsAreLocked ==
  cfg.locks =>
    /\ \A parent_ino \in Parents, name \in NameStrs, debug \in BOOLEAN :
         /\ Owned(mkdir_plan(Store, FreshIno, OWNER_UID, OWNER_GID, MODE,
                             parent_ino, name, debug), ParentLocks(parent_ino))
         /\ Owned(mknod_plan(Store, FreshIno, OWNER_UID, OWNER_GID, MODE,
                             parent_ino, name, debug), ParentLocks(parent_ino))
         /\ Owned(symlink_plan(Store, FreshIno, parent_ino, OWNER_UID, OWNER_GID,
                               name, "x", debug), ParentLocks(parent_ino))
         /\ Owned(rmdir_plan(Store, parent_ino, name, debug), ParentLocks(parent_ino))
         /\ Owned(unlink_plan(Store, parent_ino, name, debug), ParentLocks(parent_ino))
         /\ \A new_parent_ino \in Parents, new_name \in NameStrs :
              Owned(rename_plan(Store, parent_ino, name, new_parent_ino, new_name, debug),
                    rename_locks(parent_ino, new_parent_ino))
         /\ \A ino \in Inos :
              Owned(link_plan(Store, ino, parent_ino, name), link_locks(ino, parent_ino))
    /\ \A ino \in Inos :
         /\ Owned(delete_later_plan(Store, ino), delete_later_locks(ino))
         /\ \A offset \in 0..MaxOff, bytes \in Datas :
              Owned(write_plan(Store, ino, bytes, offset), write_locks(ino))

(* ------------------- the filesystem handlers of fs.rs ------------------ *)
NotUtf8 == Raw("?", FALSE, FALSE)
Unparseable == Raw(":", TRUE, FALSE)
RawNames == {Raw("a", TRUE, TRUE), NotUtf8, Unparseable}
RawLinks == {Raw("x", TRUE, TRUE), NotUtf8}

\* check_utf8!: OsStr::to_str gives a string.
check_utf8(arg) == arg.utf8

\* A check_name! that takes every UTF-8 string for a name: C18 tells the two
\* apart.
check_name_any_utf8(str) == check_utf8(str)

\* check_name!: check_utf8! and then str::parse.
check_name(str) == check_utf8(str) /\ str.parses

\* session!: the errno replied for an error of the driver.
session_errno ==
  [error \in driver_Error |->
     CASE error.kind = "Sys" -> error.errno
       [] error.kind = "Antidote" -> "EIO"]

\* The success reply of each handler.
OkReply(op) ==
  CASE op \in {"getattr", "setattr"} -> "attr"
    [] op \in {"lookup", "mkdir", "mknod", "link", "symlink"} -> "entry"
    [] op \in {"opendir", "open"} -> "opened"
    [] op \in {"releasedir", "release", "rmdir", "unlink", "rename",
               "readdir"} -> "ok"
    [] op = "write" -> "written"
    [] op \in {"read", "readlink"} -> "data"

\* What a spawned task writes to the reply object once the call of the driver
\* has returned `result`: the success reply, or reply.error with the errno
\* the layer's mapping `errnos` gives.
reply_with(errnos, op, result) ==
  IF result.kind = "Ok" THEN <<Reply(OkReply(op))>>
  ELSE <<ReplyError(errnos[result])>>

\* Option<T>
None == [some |-> FALSE, v |-> 0]
Some(v) == [some |-> TRUE, v |-> v]
\* An update! that takes the argument whether it is there or not: C29 tells
\* the two apart.
unwrap_or_anything(opt, default) == opt.v
unwrap_or(opt, default) == IF opt.some THEN opt.v ELSE default

\* Driver::setattr
setattr_plan(s, ino, mode, uid, gid, size, atime, mtime) ==
  LET inode == s.inodes[ino]
      inode2 == [inode EXCEPT !.mode = unwrap_or(mode, @),
                              !.uid = unwrap_or(uid, @),
                              !.gid = unwrap_or(gid, @),
                              !.size = unwrap_or(size, @),
                              !.atime = unwrap_or(atime, @),
                              !.mtime = unwrap_or(mtime, @)]
  IN IF ~InodeDecode(inode) THEN Aborted(ENOENT)
     ELSE Committed(<<inode_update_stats(ino, inode2)>>, Ok(Attr(ino, inode2)))

Creates == {"mkdir", "mknod", "symlink"}

\* The method of the driver each handler calls, with the arguments of the
\* request (releasedir calls Driver::opendir).
driver_call(req, ino, debug) ==
  CASE req.op \in {"getattr", "opendir", "releasedir", "open", "release"} ->
         getattr_plan(Store, req.ino)
    [] req.op = "setattr" ->
         setattr_plan(Store, req.ino, None, None, None, Some(req.size), None, None)
    [] req.op = "lookup" -> lookup_plan(Store, req.ino, req.name.s)
    [] req.op = "readdir" -> readdir_plan(Store, req.ino, req.offset)
    [] req.op = "mkdir" ->
         mkdir_plan(Store, ino, OWNER_UID, OWNER_GID, MODE, req.ino, req.name.s, debug)
    [] req.op = "mknod" ->
         mknod_plan(Store, ino, OWNER_UID, OWNER_GID, MODE, req.ino, req.name.s, debug)
    [] req.op = "symlink" ->
         symlink_plan(Store, ino, req.ino, OWNER_UID, OWNER_GID, req.name.s,
                      req.link.s, debug)
    [] req.op = "rmdir" -> rmdir_plan(Store, req.ino, req.name.s, debug)
    [] req.op = "unlink" -> unlink_plan(Store, req.ino, req.name.s, debug)
    [] req.op = "rename" ->
         rename_plan(Store, req.ino, req.name.s, req.newparent, req.newname.s, debug)
    [] req.op = "link" -> link_plan(Store, req.ino, req.newparent, req.newname.s)
    [] req.op = "write" -> write_plan(Store, req.ino, req.data, req.offset)
    [] req.op = "read" -> read_plan(Store, req.ino, req.offset, req.size)
    [] req.op = "readlink" -> read_link_plan(Store, req.ino)

\* The Result of a call that returned.
result_of(plan) == IF plan.res.ok THEN OkResult ELSE Sys(plan.res.errno)

\* A handler is called with the next request; the task of the request before
\* it has ended.
receive ==
  /\ driver.phase = "up"
  /\ Running = {}
  /\ kernel.task # "spawned"

\* task::spawn of the session! task: the reply object moves into the task.
spawn(req) ==
  /\ kernel' = [req |-> req, task |-> "spawned", result |-> NoResult,
                replies |-> <<>>]
  /\ UNCHANGED <<backend, cfg, driver, tx, deleters, ckpts, hist>>

\* reply.error(EINVAL) and return, before the driver is called.
refuse(req) ==
  /\ kernel' = [req |-> req, task |-> "none", result |-> NoResult,
                replies |-> <<ReplyError("EINVAL")>>]
  /\ UNCHANGED <<backend, cfg, driver, tx, deleters, ckpts, hist>>

OnIno(op, ino) == Request(op, ino, NoName, 0, NoName, 0, 0, <<>>, NoName)
OnName(op, parent, name) ==
  Request(op, parent, name, 0, NoName, 0, 0, <<>>, NoName)

\* The inode numbers the requests name: the root as the parent directory, and
\* the root and the first inode created as the inode.
Mounted == {ROOT_INO}
Handles == {ROOT_INO, ROOT_INO + 1}

Elmerfs_getattr == \E ino \in Handles : receive /\ spawn(OnIno("getattr", ino))
Elmerfs_opendir == \E ino \in Handles : receive /\ spawn(OnIno("opendir", ino))
Elmerfs_releasedir == \E ino \in Handles : receive /\ spawn(OnIno("releasedir", ino))
Elmerfs_open == \E ino \in Handles : receive /\ spawn(OnIno("open", ino))
Elmerfs_release == \E ino \in Handles : receive /\ spawn(OnIno("release", ino))
Elmerfs_readlink == \E ino \in Handles : receive /\ spawn(OnIno("readlink", ino))

Elmerfs_setattr ==
  \E ino \in Handles, size \in {0} :
    receive /\ spawn(Request("setattr", ino, NoName, 0, NoName, 0, size, <<>>, NoName))

Elmerfs_readdir ==
  \E ino \in Handles, offset \in (0 - 1)..1 :
    receive /\ spawn(Request("readdir", ino, NoName, 0, NoName, offset, 0, <<>>, NoName))

Elmerfs_lookup ==
  \E parent \in Mounted, name \in RawNames :
    /\ receive
    /\ IF check_name(name) THEN spawn(OnName("lookup", parent, name))
       ELSE refuse(OnName("lookup", parent, name))

Elmerfs_mkdir ==
  \E parent_ino \in Mounted, name \in RawNames :
    /\ receive
    /\ driver.ino_counter <= MaxIno
    /\ IF check_name(name) THEN spawn(OnName("mkdir", parent_ino, name))
       ELSE refuse(OnName("mkdir", parent_ino, name))

Elmerfs_mknod ==
  \E parent \in Mounted, name \in RawNames :
    /\ receive
    /\ driver.ino_counter <= MaxIno
    /\ IF check_name(name) THEN spawn(OnName("mknod", parent, name))
       ELSE refuse(OnName("mknod", parent, name))

Elmerfs_rmdir ==
  \E parent \in Mounted, name \in RawNames :
    /\ receive
    /\ IF check_name(name)
       THEN /\ KindOfEntry(parent, name.s) \in {"Directory", "Missing"}
            /\ spawn(OnName("rmdir", parent, name))
       ELSE refuse(OnName("rmdir", parent, name))

Elmerfs_unlink ==
  \E parent \in Mounted, name \in RawNames :
    /\ receive
    /\ IF check_name(name)
       THEN /\ KindOfEntry(parent, name.s) \in {"Regular", "Symlink", "Missing"}
            /\ spawn(OnName("unlink", parent, name))
       ELSE refuse(OnName("unlink", parent, name))

Elmerfs_write ==
  \E ino \in Opened, offset \in (0 - 1)..0, data \in {<<1>>} :
    LET req == Request("write", ino, NoName, 0, NoName, offset, 0, data, NoName) IN
    /\ receive
    /\ inodes[ino].kind \in {"Regular", "None"}
    /\ IF offset < 0 THEN refuse(req) ELSE spawn(req)

Elmerfs_read ==
  \E ino \in Opened, offset \in (0 - 1)..0, size \in {1} :
    LET req == Request("read", ino, NoName, 0, NoName, offset, size, <<>>, NoName) IN
    /\ receive
    /\ inodes[ino].kind \in {"Regular", "None"}
    /\ IF offset < 0 THEN refuse(req) ELSE spawn(req)

Elmerfs_rename ==
  \E parent \in Mounted, name \in RawNames, newparent \in Mounted,
     newname \in RawNames :
    LET req == Request("rename", parent, name, newparent, newname, 0, 0, <<>>, NoName) IN
    /\ receive
    /\ IF check_name(name) /\ check_name(newname)
       THEN /\ VfsRename(parent, name.s, newparent, newname.s)
            /\ spawn(req)
       ELSE refuse(req)

Elmerfs_link ==
  \E ino \in Handles, newparent \in Mounted, newname \in RawNames :
    LET req == Request("link", ino, NoName, newparent, newname, 0, 0, <<>>, NoName) IN
    /\ receive
    /\ inodes[ino].kind # "Directory"
    /\ IF check_name(newname) THEN spawn(req) ELSE refuse(req)

Elmerfs_symlink ==
  \E parent \in Mounted, name \in RawNames, link \in RawLinks :
    LET req == Request("symlink", parent, name, 0, NoName, 0, 0, <<>>, link) IN
    /\ receive
    /\ driver.ino_counter <= MaxIno
    /\ IF check_utf8(link) /\ check_name(name) THEN spawn(req) ELSE refuse(req)

\* The sizes a call adds to or subtracts from.
SizesOf(req) ==
  IF req.op \in Creates \cup {"rmdir", "unlink"} THEN {inodes[req.ino].size}
  ELSE IF req.op = "rename"
       THEN {inodes[req.ino].size, inodes[req.newparent].size}
       ELSE {1}

\* A spawned task: the call of the driver runs to its end and the task writes
\* the reply reply_with makes of its result; a call that panics ends the task
\* before it has written a reply.
call_and_reply(errnos) ==
  /\ kernel.task = "spawned"
  /\ driver.phase = "up"
  /\ Running = {}
  /\ \E ino \in Inos, debug \in Builds(SizesOf(kernel.req)) :
       LET req == kernel.req
           plan == driver_call(req, ino, debug)
       IN /\ IF req.op \in Creates THEN next_ino(ino)
             ELSE /\ ino = ROOT_INO
                  /\ UNCHANGED <<driver, ckpts>>
                  /\ hist' = IF req.op = "write" /\ plan.end = "commit"
                             THEN [hist EXCEPT !.written[req.ino] =
                                     Overlay(@, req.offset, req.data)]
                             ELSE hist
          /\ Complete(req.op, NoArgs, plan)
          /\ kernel' =
               IF plan.end = "panic" THEN [kernel EXCEPT !.task = "failed"]
               ELSE [kernel EXCEPT !.task = "done",
                                   !.result = result_of(plan),
                                   !.replies = reply_with(errnos, req.op, result_of(plan))]
          /\ UNCHANGED <<cfg, tx>>

\* A spawned task when the backend fails the call (`?` on acquire, begin,
\* read, update or commit): nothing is committed.
fail_and_reply(errnos) ==
  /\ kernel.task = "spawned"
  /\ driver.phase = "up"
  /\ Running = {}
  /\ ~(kernel.req.op = "readdir" /\ kernel.req.offset < 0)
  /\ IF kernel.req.op \in Creates THEN \E ino \in Inos : next_ino(ino)
     ELSE UNCHANGED <<driver, ckpts, hist>>
  /\ kernel' = [kernel EXCEPT !.task = "done", !.result = Antidote,
                              !.replies = reply_with(errnos, kernel.req.op, Antidote)]
  /\ UNCHANGED <<backend, cfg, tx, deleters>>

\* The task of session!
session == call_and_reply(session_errno)
session_io_error == fail_and_reply(session_errno)

NextFs ==
  \/ Elmerfs_getattr \/ Elmerfs_opendir \/ Elmerfs_releasedir
  \/ Elmerfs_readdir \/ Elmerfs_lookup \/ Elmerfs_mkdir \/ Elmerfs_rmdir
  \/ Elmerfs_mknod \/ Elmerfs_unlink \/ Elmerfs_setattr \/ Elmerfs_open
  \/ Elmerfs_release \/ Elmerfs_write \/ Elmerfs_read \/ Elmerfs_rename
  \/ Elmerfs_link \/ Elmerfs_symlink \/ Elmerfs_readlink
  \/ session \/ session_io_error \/ DeleteLater

SpecFs == Init /\ [][NextFs]_vars

(* ------------------- the dispatch loop of dispatch.rs ------------------ *)
\* op::Op: the kinds of operation message.
OpKinds ==
  {"getattr", "setattr", "lookup", "opendir", "releasedir", "readdir",
   "mkdir", "rmdir", "mknod", "unlink", "open", "release", "write", "read",
   "rename", "link", "symlink", "readlink"}

\* drive: the kinds `match op` has an arm for.
drive_arms == {"getattr", "lookup", "opendir", "releasedir", "readdir", "mkdir"}

\* handle_result: the errno replied for an error of the driver.
InoAllocFailed == [kind |-> "InoAllocFailed", errno |-> "-"]
handle_result ==
  [error \in driver_Error \cup {InoAllocFailed} |->
     CASE error.kind = "Antidote" -> "EIO"
       [] error.kind = "Sys" -> error.errno
       [] error.kind = "InoAllocFailed" -> "ENOSPC"]

\* The messages the kernel interface sends: their names are parsed (NameRef)
\* and their offsets are those of a directory stream.
Messages ==
  {OnIno(op, ino) : op \in {"getattr", "opendir", "releasedir", "open",
                            "release", "readlink"}, ino \in Handles}
  \cup {Request("readdir", ino, NoName, 0, NoName, offset, 0, <<>>, NoName) :
          ino \in Handles, offset \in 0..1}
  \cup {OnName(op, ROOT_INO, Raw(n, TRUE, TRUE)) :
          op \in {"lookup", "mkdir", "mknod", "rmdir", "unlink"}, n \in NameStrs}
  \cup {Request("setattr", ROOT_INO + 1, NoName, 0, NoName, 0, 0, <<>>, NoName),
        Request("write", ROOT_INO + 1, NoName, 0, NoName, 0, 0, <<1>>, NoName),
        Request("read", ROOT_INO + 1, NoName, 0, NoName, 0, 1, <<>>, NoName),
        Request("rename", ROOT_INO, Raw("a", TRUE, TRUE), ROOT_INO,
                Raw("b", TRUE, TRUE), 0, 0, <<>>, NoName),
        Request("link", ROOT_INO + 1, NoName, ROOT_INO, Raw("b", TRUE, TRUE),
                0, 0, <<>>, NoName),
        Request("symlink", ROOT_INO, Raw("a", TRUE, TRUE), 0, NoName, 0, 0,
                <<>>, Raw("x", TRUE, TRUE))}

\* The kernel interface sends a message on the channel, once the message
\* before it has been dealt with.
op_send ==
  \E op \in Messages :
    /\ driver.phase = "up"
    /\ kernel.task \notin {"queued", "spawned"}
    /\ op.op \in Creates => driver.ino_counter <= MaxIno
    /\ kernel' = [req |-> op, task |-> "queued", result |-> NoResult,
                  replies |-> <<>>]
    /\ UNCHANGED <<backend, cfg, driver, tx, deleters, ckpts, hist>>

\* drive: one turn of the loop.  op_receiver.recv() takes the message and
\* the arm of its kind spawns the task; for a kind without an arm nothing is
\* spawned and the loop goes on to the next message.
drive ==
  /\ kernel.task = "queued"
  /\ kernel' = [kernel EXCEPT !.task = IF kernel.req.op \in drive_arms
                                       THEN "spawned" ELSE "dropped"]
  /\ UNCHANGED <<backend, cfg, driver, tx, deleters, ckpts, hist>>

\* The task an arm of drive spawns.
drive_task == call_and_reply(handle_result)
drive_task_io_error == fail_and_reply(handle_result)

NextDispatch == op_send \/ drive \/ drive_task \/ drive_task_io_error

SpecDispatch == Init /\ [][NextDispatch]_vars

\* The loop takes every message off the channel and the executor runs every
\* spawned task.
FairDispatch ==
  /\ SpecDispatch
  /\ WF_vars(drive)
  /\ WF_vars(drive_task \/ drive_task_io_error)

(* ------------------------ properties of the replies -------------------- *)
\* The request being served has been answered or its task has ended.
Settled == kernel.req.op # "none" /\ kernel.task # "spawned"

\* C15: every request receives exactly one terminal reply, the success reply
\* of its operation or one error(errno): once the handler has returned without
\* spawning, or the spawned task has ended, the reply object holds one reply.
C15_ExactlyOneReply ==
  Settled =>
    /\ Len(kernel.replies) = 1
    /\ \/ kernel.replies[1] = Reply(OkReply(kernel.req.op))
       \/ kernel.replies[1].kind = "error"

\* The names and link targets a request carries that are not valid UTF-8 or
\* do not parse as a name (a link target only has to be UTF-8).
IsName(raw) == raw.utf8 /\ raw.parses
BadName(req) ==
  \/ ~IsName(req.name)
  \/ ~IsName(req.newname)
  \/ ~req.link.utf8

\* C18: a request whose name or link target is not valid UTF-8, or whose name
\* does not parse, is answered EINVAL and no call of the driver is started
\* for it: no task, no connection, no transaction, and the backend and the
\* driver are as before.
C18_InvalidNameIsRefused ==
  [][(kernel' # kernel /\ BadName(kernel'.req)) =>
       /\ kernel'.task = "none"
       /\ kernel'.replies = <<ReplyError("EINVAL")>>
       /\ UNCHANGED <<backend, driver, tx, deleters, ckpts>>]_vars

\* A rename whose new name does not parse has been refused while its source
\* exists.
C18_Witness ==
  /\ kernel.req.op = "rename"
  /\ IsName(kernel.req.name)
  /\ kernel.req.newname = Unparseable
  /\ HasEntry(dirs[kernel.req.ino], kernel.req.name.s)
  /\ kernel.replies = <<ReplyError("EINVAL")>>
  /\ kernel.task = "none"

\* C19: a read, write or readdir request with a negative offset is answered
\* EINVAL, changes nothing in the backend and does not fail its task.
C19_NegativeOffsetIsRefused ==
  [][(kernel'.req.op \in {"read", "write", "readdir"} /\ kernel'.req.offset < 0) =>
       /\ UNCHANGED backend
       /\ kernel'.task # "failed"
       /\ kernel'.task # "spawned" => kernel'.replies = <<ReplyError("EINVAL")>>]_vars

\* C16: for each kind of operation, a message the dispatch loop receives
\* leads to a task that calls the driver and writes a reply to the message's
\* reply object.
C16_EveryOpIsReplied ==
  \A k \in OpKinds :
    (kernel.task = "queued" /\ kernel.req.op = k)
      ~> (kernel.req.op = k /\ kernel.task = "done" /\ Len(kernel.replies) = 1)

\* The failures of a call the error taxonomy names, and the errno of each.
Failures == driver_Error \cup {InoAllocFailed}
Expected(error) ==
  CASE error.kind = "Antidote" -> "EIO"
    [] error.kind = "Sys" -> error.errno
    [] error.kind = "InoAllocFailed" -> "ENOSPC"

C20_EntriesNameLiveInodes ==
  deleters = {} =>
    \A dir \in Inos : \A entry \in dirs[dir] :
      entry.name.s # DOT =>
        /\ InodeDecode(inodes[entry.ino])
        /\ inodes[entry.ino].nlink >= 1
        /\ inodes[entry.ino].kind = entry.kind

(* -------------------- driver calls running concurrently ---------------- *)
\* The shared lock sets the read-only calls declare to transaction!, and the
\* exclusive one of setattr.
getattr_locks(ino) == {InodeKey(ino)}
setattr_locks(ino) == {InodeKey(ino)}
lookup_locks(parent_ino) == {DirKey(parent_ino)}
readdir_locks(ino) == {DirKey(ino)}
read_locks(ino) == {InodeKey(ino)}
read_link_locks(ino) == {SymlinkKey(ino)}

\* The arguments a running call keeps: the inode or parent it names, the name
\* and, for rename and link, the new name.
CallArgs(ino, name, new_name) == [parent_ino |-> ino, name |-> name, link |-> new_name]

\* A call that draws no inode number starts in a free task: pool.acquire(),
\* transaction! with the lock set of the call, and its body on the snapshot
\* the transaction reads.
Call(t, op, args, shared, excl, plan) ==
  /\ driver.phase = "up"
  /\ FreeSlot(t)
  /\ Begin(t, op, args, 0, shared, excl, plan)
  /\ UNCHANGED <<deleters, ckpts>>

GetAttrBegin(t) ==
  \E ino \in Handles :
    Call(t, "getattr", CallArgs(ino, "", ""), getattr_locks(ino), {},
         getattr_plan(Store, ino))

SetAttrBegin(t) ==
  \E ino \in Opened :
    Call(t, "setattr", CallArgs(ino, "", ""), {}, setattr_locks(ino),
         setattr_plan(Store, ino, None, None, None, Some(0), None, None))

LookupBegin(t) ==
  \E parent_ino \in Mounted, name \in NameStrs :
    Call(t, "lookup", CallArgs(parent_ino, name, ""), lookup_locks(parent_ino), {},
         lookup_plan(Store, parent_ino, name))

ReadDirBegin(t) ==
  \E ino \in Mounted :
    Call(t, "readdir", CallArgs(ino, "", ""), readdir_locks(ino), {},
         readdir_plan(Store, ino, 0))

ReadLinkBegin(t) ==
  \E ino \in Opened :
    Call(t, "readlink", CallArgs(ino, "", ""), read_link_locks(ino), {},
         read_link_plan(Store, ino))

\* write and read name an inode number the kernel holds as a file.
WriteBegin(t) ==
  \E ino \in Opened :
    /\ inodes[ino].kind \in {"Regular", "None"}
    /\ Call(t, "write", CallArgs(ino, "", ""), {}, write_locks(ino),
            write_plan(Store, ino, <<1>>, 0))

ReadBegin(t) ==
  \E ino \in Opened :
    /\ inodes[ino].kind \in {"Regular", "None"}
    /\ Call(t, "read", CallArgs(ino, "", ""), read_locks(ino), {},
            read_plan(Store, ino, 0, 1))

RmDirBegin(t) ==
  \E parent_ino \in Mounted, name \in NameStrs :
  \E debug \in Builds({inodes[parent_ino].size}) :
    /\ KindOfEntry(parent_ino, name) \in {"Directory", "Missing"}
    /\ Call(t, "rmdir", CallArgs(parent_ino, name, ""), {}, ParentLocks(parent_ino),
            rmdir_plan(Store, parent_ino, name, debug))

UnlinkBegin(t) ==
  \E parent_ino \in Mounted, name \in NameStrs :
  \E debug \in Builds({inodes[parent_ino].size}) :
    /\ KindOfEntry(parent_ino, name) \in {"Regular", "Symlink", "Missing"}
    /\ Call(t, "unlink", CallArgs(parent_ino, name, ""), {}, ParentLocks(parent_ino),
            unlink_plan(Store, parent_ino, name, debug))

RenameBegin(t) ==
  \E parent_ino \in Mounted, name \in NameStrs,
     new_parent_ino \in Mounted, new_name \in NameStrs :
  \E debug \in Builds({inodes[parent_ino].size, inodes[new_parent_ino].size}) :
    /\ VfsRename(parent_ino, name, new_parent_ino, new_name)
    /\ Call(t, "rename", CallArgs(parent_ino, name, new_name), {},
            rename_locks(parent_ino, new_parent_ino),
            rename_plan(Store, parent_ino, name, new_parent_ino, new_name, debug))

LinkBegin(t) ==
  \E ino \in Opened, new_parent_ino \in Mounted, new_name \in NameStrs :
    /\ inodes[ino].kind # "Directory"
    /\ Call(t, "link", CallArgs(ino, new_name, ""), {},
            link_locks(ino, new_parent_ino),
            link_plan(Store, ino, new_parent_ino, new_name))

\* The spawned delete_later task of ino starts: it begins its transaction and
\* reads the inode.
DeleteBeginOf(t, ino) ==
  /\ ino \in deleters
  /\ driver.phase = "up"
  /\ FreeSlot(t)
  /\ Begin(t, "delete_later", CallArgs(ino, "", ""), 0, {},
           delete_later_locks(ino), delete_later_plan(Store, ino))
  /\ deleters' = deleters \ {ino}
  /\ UNCHANGED ckpts

DeleteBegin(t) == \E ino \in Inos : DeleteBeginOf(t, ino)

\* A failed call that has spawned its deleter all the same: C24 tells the two
\* apart.
Fail_after_spawn(t) ==
  /\ driver.phase = "up"
  /\ tx[t].pc = "open"
  /\ tx' = [tx EXCEPT ![t] = Idle]
  /\ deleters' = IF tx[t].op \in {"rmdir", "unlink"} /\ tx[t].plan.end = "commit"
                 THEN deleters \cup {tx[t].plan.res.val} ELSE deleters
  /\ UNCHANGED <<backend, cfg, driver, ckpts, hist, kernel>>

\* The backend fails the open transaction of task t (`?` on read, update or
\* commit): the call returns the error and nothing is committed.
Fail(t) ==
  /\ driver.phase = "up"
  /\ tx[t].pc = "open"
  /\ tx' = [tx EXCEPT ![t] = Idle]
  /\ UNCHANGED <<backend, cfg, driver, deleters, ckpts, hist, kernel>>

NextTx ==
  \/ \E t \in Slots : MkDirAlloc(t)
  \/ \E t \in Slots : MkNodAlloc(t)
  \/ \E t \in Slots : SymlinkAlloc(t)
  \/ \E t \in Slots : CreateBegin(t)
  \/ \E t \in Slots : GetAttrBegin(t)
  \/ \E t \in Slots : SetAttrBegin(t)
  \/ \E t \in Slots : LookupBegin(t)
  \/ \E t \in Slots : ReadDirBegin(t)
  \/ \E t \in Slots : ReadLinkBegin(t)
  \/ \E t \in Slots : WriteBegin(t)
  \/ \E t \in Slots : ReadBegin(t)
  \/ \E t \in Slots : RmDirBegin(t)
  \/ \E t \in Slots : UnlinkBegin(t)
  \/ \E t \in Slots : RenameBegin(t)
  \/ \E t \in Slots : LinkBegin(t)
  \/ \E t \in Slots : DeleteBegin(t)
  \/ \E t \in Slots : Finish(t)
  \/ \E t \in Slots : Fail(t)

\* One call at a time, with or without locks.
InitTx ==
  /\ InitBackend
  /\ InitDriver
  /\ cfg \in {[locks |-> l, tasks |-> 1] : l \in BOOLEAN}

SpecTx == InitTx /\ [][NextTx]_vars

\* The calls that change or read a link count, two at a time, with locks.
InitLinks ==
  /\ InitBackend
  /\ InitDriver
  /\ cfg = [locks |-> TRUE, tasks |-> MaxTasks]

NextLinks ==
  \/ \E t \in Slots : MkDirAlloc(t)
  \/ \E t \in Slots : MkNodAlloc(t)
  \/ \E t \in Slots : CreateBegin(t)
  \/ \E t \in Slots : SetAttrBegin(t)
  \/ \E t \in Slots : WriteBegin(t)
  \/ \E t \in Slots : RmDirBegin(t)
  \/ \E t \in Slots : UnlinkBegin(t)
  \/ \E t \in Slots : RenameBegin(t)
  \/ \E t \in Slots : LinkBegin(t)
  \/ \E t \in Slots : DeleteBegin(t)
  \/ \E t \in Slots : Finish(t)

SpecLinks == InitLinks /\ [][NextLinks]_vars

\* The runtime runs every spawned task: a call that holds its inode number
\* begins, an open transaction ends, and a deleter that can take its lock
\* again and again does begin.  Requests come when the kernel sends them.
FairLinks ==
  /\ SpecLinks
  /\ \A t \in Slots : WF_vars(CreateBegin(t))
  /\ \A t \in Slots : WF_vars(Finish(t))
  /\ \A ino \in Inos : SF_vars(\E t \in Slots : DeleteBeginOf(t, ino))

(* --------------------- properties of the link count -------------------- *)
\* The sum of the counter deltas a batch applies to the nlink of inode i.
RECURSIVE LinkDelta(_, _)
LinkDelta(us, i) ==
  IF us = <<>> THEN 0
  ELSE (IF Head(us).type = "inode_incr" /\ Head(us).ino = i THEN Head(us).val ELSE 0)
       + LinkDelta(Tail(us), i)

\* The step in which the transaction of task t commits.
Commits(t) ==
  tx[t].pc = "open" /\ tx'[t].pc = "idle" /\ tx[t].plan.end = "commit"

LinkCalls == {"link", "unlink", "rmdir", "rename", "write", "setattr"}

\* C21: with locks enabled and link, unlink, rmdir, rename, write and setattr
\* transactions interleaved, every commit changes the nlink of an inode it
\* neither creates nor removes by exactly the increments and decrements of
\* its own batch, so that nlink is the initial value plus the committed link
\* increments minus the committed unlink and rmdir decrements: no stats
\* update writes back an nlink read before a concurrent counter change.
C21_LinkCountIsTheSumOfDeltas ==
  [][\A t \in Slots, i \in Inos :
       (/\ cfg.locks
        /\ Commits(t)
        /\ tx[t].op \in LinkCalls
        /\ InodeDecode(inodes[i])
        /\ InodeDecode(inodes'[i]))
       => inodes'[i].nlink = inodes[i].nlink + LinkDelta(tx[t].plan.updates, i)]_vars

(* ----------------------- properties of the lock sets ------------------- *)
\* The lock set the table of operations gives a call, from its arguments.
LockTable(op, ino, new_parent_ino) ==
  CASE op = "getattr" -> [shared |-> {InodeKey(ino)}, excl |-> {}]
    [] op \in {"lookup", "readdir"} -> [shared |-> {DirKey(ino)}, excl |-> {}]
    [] op = "readlink" -> [shared |-> {SymlinkKey(ino)}, excl |-> {}]
    [] op \in {"mkdir", "mknod", "symlink", "unlink", "rmdir"} ->
         [shared |-> {}, excl |-> {InodeKey(ino), DirKey(ino)}]
    [] op \in {"write", "setattr"} -> [shared |-> {}, excl |-> {InodeKey(ino)}]
    [] op = "rename" ->
         [shared |-> {}, excl |-> {InodeKey(ino), InodeKey(new_parent_ino)}]
    [] op = "link" ->
         [shared |-> {},
          excl |-> {InodeKey(ino), InodeKey(new_parent_ino), DirKey(new_parent_ino)}]

TableCalls ==
  {"getattr", "lookup", "readdir", "readlink", "mkdir", "mknod", "symlink",
   "unlink", "rmdir", "write", "setattr", "rename", "link"}

NoLocks == [shared |-> {}, excl |-> {}]

\* The transaction of task t holds the lock set of the table, or none when
\* locks are off.
LocksAsDeclared(t) ==
  \E new_parent_ino \in Mounted :
    [shared |-> tx[t].shared, excl |-> tx[t].excl] =
      IF cfg.locks THEN LockTable(tx[t].op, tx[t].args.parent_ino, new_parent_ino)
      ELSE NoLocks

Orphan(inode) ==
  (inode.kind = "Directory" /\ inode.nlink <= 1) \/ inode.nlink = 0

\* The store without the inode, directory and symlink entities of ino.
Reclaimed(s, ino) ==
  [s EXCEPT !.inodes[ino] = NoInode, !.dirs[ino] = {}, !.symlinks[ino] = NoLink]

\* C23: the deferred deleter removes the inode, directory and symlink
\* entities of its inode exactly when the inode it reads is a directory with
\* nlink <= 1 or has nlink 0; otherwise it commits without a change; when
\* the inode is absent it aborts without a change.
C23_DeleterRemovesOrphansOnly ==
  \A ino \in Inos :
    LET plan == delete_later_plan(Store, ino)
        inode == inodes[ino]
    IN IF ~InodeDecode(inode)
       THEN plan.end = "abort" /\ plan.updates = <<>>
       ELSE /\ plan.end = "commit"
            /\ Orphan(inode) => (After(plan) = Reclaimed(Store, ino) /\ plan.res = Ok(TRUE))
            /\ ~Orphan(inode) => (plan.updates = <<>> /\ plan.res = Ok(FALSE))

\* A deleter is about to run on a directory that lost the link of its
\* parent, and reclaims it.
C23_Witness ==
  \E ino \in deleters :
    /\ InodeDecode(inodes[ino])
    /\ inodes[ino].kind = "Directory"
    /\ inodes[ino].nlink = 1
    /\ DirDecode(dirs[ino])
    /\ After(delete_later_plan(Store, ino)) = Reclaimed(Store, ino)
    /\ After(delete_later_plan(Store, ino)) # Store

\* The step in which the call of task t returns.
Returns(t) == tx[t].pc = "open" /\ tx'[t].pc = "idle"

\* The step commits the batch of task t.
Persists(t) ==
  LET s2 == After(tx[t].plan) IN
  /\ tx[t].plan.end = "commit"
  /\ inodes' = s2.inodes
  /\ dirs' = s2.dirs
  /\ symlinks' = s2.symlinks
  /\ pages' = s2.pages
  /\ inos' = s2.inos

\* C24: a deferred-delete task is spawned only by the step in which an
\* unlink or rmdir transaction commits, for the inode whose link it dropped;
\* an unlink or rmdir that aborts (ENOENT) or fails (transport error) spawns
\* no task and changes nothing in the backend.
C24_DeleterFollowsTheCommit ==
  [][/\ \A i \in deleters' \ deleters :
          \E t \in Slots :
            /\ Returns(t)
            /\ tx[t].op \in {"rmdir", "unlink"}
            /\ Persists(t)
            /\ backend' # backend
            /\ tx[t].plan.res = Ok(i)
     /\ \A t \in Slots :
          (/\ Returns(t)
           /\ tx[t].op \in {"rmdir", "unlink"}
           /\ (tx[t].plan.end # "commit" \/ backend' = backend))
          => (backend' = backend /\ deleters' = deleters)]_vars

\* An unlink has committed: the inode it named has no link left and its
\* deleter is waiting.
C24_Witness ==
  /\ Running = {}
  /\ \E i \in deleters :
       /\ InodeDecode(inodes[i])
       /\ inodes[i].kind = "Regular"
       /\ inodes[i].nlink = 0
       /\ \A e \in dirs[ROOT_INO] : e.ino # i

\* Some directory entry names the inode.
Named(ino) ==
  \E d \in Inos : \E e \in dirs[d] : e.ino = ino /\ e.name # Canonicalize(DOT, VIEW)

\* C25: once a committed unlink or rmdir has left an inode without a link
\* (nlink 0, or a directory with nlink <= 1) and spawned its deleter, the
\* inode is eventually removed unless a later link gives it a name again,
\* whatever write, setattr and rename calls run meanwhile.
C25_OrphansAreReclaimed ==
  \A ino \in Inos :
    (ino \in deleters /\ InodeDecode(inodes[ino]) /\ Orphan(inodes[ino]) /\ ~Named(ino))
    ~> (~InodeDecode(inodes[ino]) \/ Named(ino))

\* C26: when the deleter removes the inode of a regular file it removes the
\* page data of the file with it: after the step of the deleter the file
\* has no page left.
C26_DeleterRemovesThePages ==
  [][\A ino \in deleters \ deleters' :
       (/\ InodeDecode(inodes[ino])
        /\ inodes[ino].kind = "Regular"
        /\ ~InodeDecode(inodes'[ino]))
       => \A p \in DOMAIN pages'[ino] : pages'[ino][p] = <<>>]_vars

(* ------------------ properties of rename, unlink, setattr, write ------- *)
\* What C27 says of rename(p, n, p2, n2) in the current state.
RenameMovesTheEntry(p, n, p2, n2, debug) ==
  LET plan == rename_plan(Store, p, n, p2, n2, debug)
      s2 == After(plan)
      entry == GetEntry(dirs[p], n)
      target == inodes[GetEntry(dirs[p2], n2).ino]
      target_ino == GetEntry(dirs[p2], n2).ino
  IN
  IF ~HasEntry(dirs[p], n)
  THEN plan.res = ENOENT /\ s2 = Store /\ plan.end = "abort"
  ELSE plan.end = "commit" =>
         /\ ~HasEntry(s2.dirs[p], n)
         /\ HasEntry(s2.dirs[p2], n2)
         /\ GetEntry(s2.dirs[p2], n2).ino = entry.ino
         /\ GetEntry(s2.dirs[p2], n2).kind = inodes[entry.ino].kind
         /\ (/\ HasEntry(dirs[p2], n2)
             /\ InodeDecode(target)
             /\ \/ target.kind = "Directory" /\ target.size = 0
                \/ target.nlink = 1)
            => /\ ~InodeDecode(s2.inodes[target_ino])
               /\ target.kind = "Directory" => ~DirDecode(s2.dirs[target_ino])
               /\ target.kind = "Symlink" => ~s2.symlinks[target_ino].set

C28_UnlinkCommitsThreeChanges ==
  \A parent_ino \in Parents, name \in NameStrs, debug \in BOOLEAN :
    LET plan == unlink_plan(Store, parent_ino, name, debug)
        entry == GetEntry(dirs[parent_ino], name)
    IN
    KindOfEntry(parent_ino, name) \in {"Regular", "Symlink", "Missing"} =>
      IF InodeDecode(inodes[parent_ino]) /\ HasEntry(dirs[parent_ino], name)
      THEN plan.end = "commit" =>
             After(plan) =
               [Store EXCEPT !.inodes[entry.ino].nlink = @ - 1,
                             !.dirs[parent_ino] = @ \ {entry},
                             !.inodes[parent_ino].size = @ - 1]
      ELSE plan = Aborted(ENOENT)

\* The optional arguments of setattr: absent, or a value no inode holds yet.
Options == {None, Some(9)}

\* The field after setattr: the argument when present, the old value when not.
Overwritten(opt, old) == IF opt.some THEN opt.v ELSE old

\* C29: setattr overwrites exactly the fields among mode, uid, gid, size,
\* atime and mtime whose argument is present and leaves everything else of
\* the inode (kind, parent, ctime, nlink, the absent fields) and of the
\* backend as it was; on a missing inode it returns ENOENT and persists
\* nothing.
C29_SetattrWritesThePresentFields ==
  \A ino \in Inos :
  \A mode \in Options, uid \in Options, gid \in Options,
     size \in Options, atime \in Options, mtime \in Options :
    LET plan == setattr_plan(Store, ino, mode, uid, gid, size, atime, mtime)
        old == inodes[ino]
        new == After(plan).inodes[ino]
    IN IF ~InodeDecode(old) THEN plan = Aborted(ENOENT)
       ELSE /\ plan.end = "commit"
            /\ new.mode = Overwritten(mode, old.mode)
            /\ new.uid = Overwritten(uid, old.uid)
            /\ new.gid = Overwritten(gid, old.gid)
            /\ new.size = Overwritten(size, old.size)
            /\ new.atime = Overwritten(atime, old.atime)
            /\ new.mtime = Overwritten(mtime, old.mtime)
            /\ new.kind = old.kind /\ new.parent = old.parent
            /\ new.ctime = old.ctime /\ new.nlink = old.nlink
            /\ InodeDecode(new)
            /\ After(plan) = [Store EXCEPT !.inodes[ino] = new]
            /\ plan.res = Ok(Attr(ino, new))

\* setattr of the first file, one request at a time.
SetAttr ==
  \E ino \in Opened :
  \E mode \in Options, uid \in Options, gid \in Options,
     size \in Options, atime \in Options, mtime \in Options :
    Exec("setattr", [ino |-> ino],
         setattr_plan(Store, ino, mode, uid, gid, size, atime, mtime))

NextAttr == MkNod \/ SetAttr \/ GetAttr

SpecAttr == Init /\ [][NextAttr]_vars

\* A setattr has changed the mode and the modification time of a file and
\* nothing else.
C29_Witness ==
  \E ino \in Inos :
    /\ InodeDecode(inodes[ino])
    /\ inodes[ino] =
         [NewInode("Regular", ROOT_INO, T0, OWNER_UID, OWNER_GID, MODE, 0, 1)
            EXCEPT !.mode = 9, !.mtime = 9]

\* C30: write(ino, bytes, offset) on an existing inode makes the persisted
\* size the larger of the old size and offset + len(bytes), never a smaller
\* one; on a missing inode it returns ENOENT and persists nothing, the page
\* writes it issued before the lookup of the inode included.
C30_WriteGrowsTheSize ==
  \A ino \in Inos, bytes \in Datas, offset \in 0..MaxOff :
    LET plan == write_plan(Store, ino, bytes, offset)
        old == inodes[ino]
    IN IF InodeDecode(old)
       THEN /\ plan.end = "commit"
            /\ After(plan).inodes[ino].size = Max(old.size, offset + Len(bytes))
            /\ After(plan).inodes[ino].size >= old.size
       ELSE /\ plan.res = ENOENT
            /\ plan.end = "abort"
            /\ After(plan) = Store

\* Writes have made a file of three bytes, and a write of its first byte is
\* about to leave the size at three; a write to the inode number not yet
\* given out is about to be refused.
C30_Witness ==
  \E ino \in Files :
    /\ inodes[ino].size = 3
    /\ Len(hist.written[ino]) = 3
    /\ After(write_plan(Store, ino, <<1>>, 0)).inodes[ino].size = 3
    /\ ~InodeDecode(inodes[MaxIno])
    /\ write_plan(Store, MaxIno, <<1>>, 0).res = ENOENT

(* ------------------- enumerating a directory in pages ------------------ *)
\* The entries a reply buffer holds at most.  The kernel hands a buffer that
\* holds one entry at least; ReplyDirectory::add returns true, and leaves the
\* entry out, once the buffer is full.
MaxFit == 2

\* A handler that attaches to an entry its own position, not the position
\* after it: C31 tells the two apart.
entry_offset_of_itself(offset, i) == offset + i
\* Elmerfs::readdir: the offset attached to entry i (from 0) of the entries
\* Driver::readdir returned for `offset`.
entry_offset(offset, i) == offset + i + 1

\* Elmerfs::readdir, the loop over the entries: each is added with its offset
\* until the buffer, which holds `fit` entries, is full.
reply_add(entries, offset, fit) ==
  [i \in 1..Min(Len(entries), fit) |->
     [name |-> entries[i].name, ino |-> entries[i].ino, kind |-> entries[i].kind,
      offset |-> entry_offset(offset, i - 1)]]

\* reply.ok() of a ReplyDirectory: the entries the buffer took.
ReplyDirectory(entries) == [kind |-> "directory", errno |-> "OK", entries |-> entries]

\* Elmerfs::readdir with its task, for a reader that calls again only once
\* the reply has come: the call of the driver and the reply it is turned into.
ReadDirPage(ino, offset) ==
  /\ driver.phase = "up"
  /\ Running = {}
  /\ \E fit \in 1..MaxFit :
       LET plan == readdir_plan(Store, ino, offset)
           accepted == IF plan.res.ok THEN reply_add(plan.res.val, offset, fit)
                       ELSE <<>>
       IN /\ Complete("readdir", NoArgs, plan)
          /\ kernel' = [req |-> Request("readdir", ino, NoName, 0, NoName, offset,
                                        0, <<>>, NoName),
                        task |-> "done",
                        result |-> result_of(plan),
                        replies |-> IF plan.res.ok THEN <<ReplyDirectory(accepted)>>
                                    ELSE <<ReplyError(session_errno[result_of(plan)])>>]
          /\ hist' = [hist EXCEPT !.listed = @ \o accepted]
  /\ UNCHANGED <<cfg, driver, tx, ckpts>>

\* An enumeration is under way: the last request was a readdir.
Paging == kernel.req.op = "readdir"
LastPage == kernel.replies[1]

\* The reader starts at offset 0.
Elmerfs_readdir_first ==
  /\ kernel = Quiet
  /\ \E ino \in Handles : ReadDirPage(ino, 0)

\* The reader resumes from the offset attached to the last entry the buffer
\* took.
Elmerfs_readdir_next ==
  /\ Paging
  /\ LastPage.kind = "directory"
  /\ LastPage.entries # <<>>
  /\ ReadDirPage(kernel.req.ino, LastPage.entries[Len(LastPage.entries)].offset)

\* A reply without entries, or an error, ends the enumeration.
EndOfDirectory ==
  /\ Paging
  /\ LastPage.kind = "directory" => LastPage.entries = <<>>
  /\ kernel' = Quiet
  /\ hist' = [hist EXCEPT !.listed = <<>>]
  /\ UNCHANGED <<backend, cfg, driver, tx, deleters, ckpts>>

\* The directory changes between enumerations only.
Mutate ==
  /\ kernel = Quiet
  /\ (MkDir \/ MkNod \/ Symlink \/ Unlink \/ RmDir)

NextPage ==
  \/ Mutate
  \/ Elmerfs_readdir_first
  \/ Elmerfs_readdir_next
  \/ EndOfDirectory

SpecPage == Init /\ [][NextPage]_vars

\* The reader goes on calling until the directory is exhausted.
FairPage == SpecPage /\ WF_vars(Elmerfs_readdir_next)

\* The names and kinds the replies of the enumeration carried, in the order
\* they came, and those of the directory in the order of its map.
Listed == [i \in 1..Len(hist.listed) |->
             [name |-> hist.listed[i].name, kind |-> hist.listed[i].kind]]
InMapOrder(ino) ==
  LET es == SortedEntries(dirs[ino])
  IN [i \in 1..Len(es) |-> [name |-> es[i].name.s, kind |-> es[i].kind]]

ListingADirectory == Paging /\ LastPage.kind = "directory"
Exhausted == ListingADirectory /\ LastPage.entries = <<>>

\* C31: a reader that calls readdir at offset 0 and then again and again at
\* the offset attached to the last entry the reply buffer took, while nothing
\* changes the directory, has received at every moment the first entries of
\* the directory in the order of its map, each once (by name and kind; the
\* inode numbers of the entries are the matter of C34); the reply that carries
\* no entry comes, and when it comes every entry has been received.
C31_PagingListsEveryEntryOnce ==
  /\ [](ListingADirectory =>
          /\ Len(Listed) <= Len(InMapOrder(kernel.req.ino))
          /\ Listed = SubSeq(InMapOrder(kernel.req.ino), 1, Len(Listed))
          /\ \A i \in 1..Len(hist.listed) : hist.listed[i].offset = i
          /\ (Exhausted => Listed = InMapOrder(kernel.req.ino)))
  /\ (ListingADirectory ~> Exhausted)

\* The root holds ".", "a" and "b"; the buffer took them in two pages at
\* least, and the last call, made at offset 3, returned no entry.
C31_Witness ==
  /\ Exhausted
  /\ kernel.req.ino = ROOT_INO
  /\ kernel.req.offset = 3
  /\ Len(hist.listed) = 3

(* ------------------------- the root across restarts -------------------- *)
\* The namespace operations one at a time, and the driver dying and being
\* started again on the same bucket; it dies once at most after it has given
\* out inode numbers.
Die == hist.before = {} /\ Crash

\* An inode number given out again after a restart can turn a directory that
\* still has entries into a file: the sizes of those stay within the bound too.
SizesKept == \A i \in Inos : inodes'[i].size <= MaxSize

NextRoot ==
  \/ MkDir /\ SizesKept
  \/ MkNod /\ SizesKept
  \/ RmDir /\ SizesKept
  \/ Unlink /\ SizesKept
  \/ Rename /\ SizesKept
  \/ DeleteLater
  \/ MakeRoot
  \/ Die
  \/ Restart

SpecRoot == Init /\ [][NextRoot]_vars

\* The inode numbers next_ino has given out, before and since the last start.
Assigned == hist.before \cup Range(hist.now)

\* C32: once the driver has started, and whatever operations and restarts
\* follow, inode 1 decodes as a directory whose parent is 1 and whose nlink is
\* 3 at least, the directory entity of inode 1 decodes, the counter of a
\* running driver is above 1, and next_ino has never given the number 1 to a
\* mkdir, mknod or symlink.
C32_RootIsKept ==
  /\ InodeDecode(inodes[ROOT_INO])
  /\ inodes[ROOT_INO].kind = "Directory"
  /\ inodes[ROOT_INO].parent = ROOT_INO
  /\ inodes[ROOT_INO].nlink >= 3
  /\ DirDecode(dirs[ROOT_INO])
  /\ ROOT_INO \notin Assigned
  /\ driver.phase = "up" => driver.ino_counter > ROOT_INO

\* The driver has been started again after it had given out numbers and has
\* given out a number since; the root names two children and its nlink is 3.
C32_Witness ==
  /\ driver.phase = "up"
  /\ hist.before # {}
  /\ hist.now # <<>>
  /\ Cardinality(dirs[ROOT_INO]) = 3
  /\ inodes[ROOT_INO].nlink = 3

(* --------------------------- link-count accounting --------------------- *)
\* The entries, across the directory entities that decode, that name `ino`.
EntriesNaming(ino) ==
  {de \in UNION {{<<d, e>> : e \in dirs[d]} : d \in {x \in Inos : DirDecode(dirs[x])}} :
     de[2].ino = ino /\ de[2].name.s # DOT}

\* C33: with locks enabled, in every state committed operations lead to, each
\* inode that decodes as a Regular file or a Symlink has an nlink equal to the
\* number of entries, over all directory entities that decode, that name it.
C33_LinkCountIsTheEntryCount ==
  cfg.locks =>
    \A ino \in Inos :
      (InodeDecode(inodes[ino]) /\ inodes[ino].kind \in {"Regular", "Symlink"})
        => inodes[ino].nlink = Cardinality(EntriesNaming(ino))

(* ------------------------ what readdir says of a child ----------------- *)
\* C34: every entry readdir(dir, 0) returns carries the inode number that
\* lookup(dir, name) resolves its name to, and the kind of that inode.
C34_ReaddirNamesTheChild ==
  \A dir \in Inos :
    LET listing == readdir_plan(Store, dir, 0) IN
    listing.res.ok =>
      \A i \in 1..Len(listing.res.val) :
        LET e == listing.res.val[i]
            found == lookup_plan(Store, dir, e.name)
        IN /\ found.res.ok
           /\ e.ino = found.res.val.ino
           /\ e.kind = found.res.val.kind

(* ------------------------- the sizes of directories -------------------- *)
\* The call reaches its `size -= 1`: without overflow checks it commits.
Subtracts(plan) == plan.end = "commit"

\* C35: whenever an rmdir, unlink or rename the kernel can send reaches the
\* statement that subtracts 1 from the size of the parent directory, the size
\* it has read is not 0.
C35_SizeNeverUnderflows ==
  \A parent_ino \in Parents, name \in NameStrs :
    /\ (KindOfEntry(parent_ino, name) = "Directory"
          /\ Subtracts(rmdir_plan(Store, parent_ino, name, FALSE)))
         => ~Overflows(TRUE, inodes[parent_ino].size)
    /\ (KindOfEntry(parent_ino, name) \in {"Regular", "Symlink"}
          /\ Subtracts(unlink_plan(Store, parent_ino, name, FALSE)))
         => ~Overflows(TRUE, inodes[parent_ino].size)
    /\ \A new_parent_ino \in Parents, new_name \in NameStrs :
         (VfsRename(parent_ino, name, new_parent_ino, new_name)
            /\ Subtracts(rename_plan(Store, parent_ino, name, new_parent_ino,
                                     new_name, FALSE)))
           => ~Overflows(TRUE, inodes[parent_ino].size)

====
